---- MODULE Spec2Model ----
(***************************************************************************)
(* Skyline guest virtual-memory subsystem: the flat address-space map      *)
(* (FlatAddressSpaceMap) and the allocator built on it (FlatAllocator).    *)
(* Iterators of the block vector are modelled as 1-based positions:        *)
(* blocks.begin() is 1, blocks.end() is Len(blocks) + 1 and the position   *)
(* before begin() is 0.                                                    *)
(***************************************************************************)
EXTENDS Integers, Sequences, FiniteSets, TLC

VARIABLES
    blocks,                 \* FlatAddressSpaceMap::blocks
    PaContigSplit,          \* template parameter of the instantiated map
    vaStart,                \* FlatAllocator::vaStart
    currentLinearAllocEnd,  \* FlatAllocator::currentLinearAllocEnd
    call,                   \* the most recent call: operation and outcome
    pc,                     \* where each thread is in its call on the map
    blockMutex,             \* FlatAddressSpaceMap::blockMutex: the threads holding it
    chunks,                 \* MemoryManager::chunks
    addressSpace,           \* MemoryManager::addressSpace
    base,                   \* MemoryManager::base
    regions,                \* MemoryManager::code, alias, heap, stack and tlsIo
    released,               \* the munmap requests made of the host
    maps,                   \* the host's /proc/self/maps
    hostCalls,              \* the mmap and fallocate requests made of the host
    trapMap,                \* NCE::trapMap: the entry of each trap handle
    pageProt,               \* the protection applied to each host page
    fault,                  \* the protection fault NCE::TrapHandler is handling or has just handled
    texture,                \* TextureView::texture: the view's backing
    textureMutex,           \* the thread that holds each Texture's lock, or 0
    viewPc,                 \* where each thread is in TextureView::lock or try_lock
    allocated               \* the ranges Allocate has returned and nobody has freed since

vars == <<blocks, PaContigSplit, vaStart, currentLinearAllocEnd, call, pc, blockMutex,
          chunks, addressSpace, base, regions, released, maps, hostCalls,
          trapMap, pageProt, fault, texture, textureMutex, viewPc, allocated>>

\* The threads at the map's lock and what Allocate has handed out to them
lockVars == <<pc, blockMutex, allocated>>

\* The state of kernel::MemoryManager
kernelVars == <<chunks, addressSpace, base, regions, released, maps, hostCalls>>

\* The state of nce::NCE's traps
trapVars == <<trapMap, pageProt, fault>>

\* The state of a gpu::TextureView and of the Textures that back it
viewVars == <<texture, textureMutex, viewPc>>

\* The state outside the Block vector and the allocator's cursor
outside == <<lockVars, kernelVars, trapVars, viewVars>>

----------------------------------------------------------------------------
(* Bounds of the model *)

\* FlatAddressSpaceMap::vaLimit, the constructor's argument
vaLimit == 3

\* Largest value of VaType; VaType arithmetic is modulo VaTypeMax + 1
VaTypeMax == 4

VaModulus == VaTypeMax + 1

VaType == 0..VaTypeMax

----------------------------------------------------------------------------
(* Template parameters and the Block record *)

\* Template parameter UnmappedVa: the VA of a default-constructed Block and
\* the allocator's empty result
UnmappedVa == 0

\* Template parameter UnmappedPa (nullptr for the memory manager, false for
\* the allocator)
UnmappedPa == 0

\* What callers hand to Map: <<backing value (a host pointer), extraInfo>>;
\* extraInfo is the sparseMapped flag. 10 and 11 are adjacent host addresses.
MapInputs == {<<10, FALSE>>, <<11, FALSE>>, <<20, TRUE>>}

\* The backing value FlatAllocator maps with (PaType bool: true)
AllocPa == 1

Block(virt, phys, extraInfo) == [virt |-> virt, phys |-> phys, extraInfo |-> extraInfo]

Mapped(block) == block.phys # UnmappedPa

Unmapped(block) == block.phys = UnmappedPa

\* std::vector<Block> blocks{Block{}}
InitialBlocks == <<Block(UnmappedVa, UnmappedPa, FALSE)>>

----------------------------------------------------------------------------
(* std::vector and <algorithm> helpers, by position *)

\* blocks.insert(pos, {items...})
InsertAt(b, pos, items) == SubSeq(b, 1, pos - 1) \o items \o SubSeq(b, pos, Len(b))

\* blocks.erase(first, last)
EraseRange(b, first, last) == SubSeq(b, 1, first - 1) \o SubSeq(b, last, Len(b))

RECURSIVE LowerBoundFrom(_, _, _, _)
LowerBoundFrom(b, first, len, value) ==
    IF len = 0 THEN first
    ELSE LET half == len \div 2
             mid == first + half
         IN IF b[mid].virt < value
            THEN LowerBoundFrom(b, mid + 1, len - (half + 1), value)
            ELSE LowerBoundFrom(b, first, half, value)

\* std::lower_bound(blocks.begin(), blocks.end(), value)
LowerBound(b, value) == LowerBoundFrom(b, 1, Len(b), value)

RECURSIVE UpperBoundFrom(_, _, _, _)
UpperBoundFrom(b, first, len, value) ==
    IF len = 0 THEN first
    ELSE LET half == len \div 2
             mid == first + half
         IN IF value < b[mid].virt
            THEN UpperBoundFrom(b, first, half, value)
            ELSE UpperBoundFrom(b, mid + 1, len - (half + 1), value)

\* std::upper_bound(blocks.begin(), blocks.end(), virt, virt < block.virt)
UpperBound(b, value) == UpperBoundFrom(b, 1, Len(b), value)

----------------------------------------------------------------------------
(* Outcomes of a call.  status is "ok" for a normal return, "bounds" and   *)
(* "consistency" for the two kinds of exception, and "ub" when the call    *)
(* dereferences a position outside the vector (the build then faults or    *)
(* keeps walking through foreign memory; the model stops there).  cb is    *)
(* the list of unmapCallback invocations made by the call.                 *)

\* A return that invokes unmapCallback a second time
Returned_Twice(b, virt, size) ==
    [blocks |-> b, status |-> "ok", cb |-> <<<<virt, size>>, <<virt, size>>>>]

Returned(b, virt, size) == [blocks |-> b, status |-> "ok", cb |-> <<<<virt, size>>>>]

Thrown(b, kind) == [blocks |-> b, status |-> kind, cb |-> <<>>]

RECURSIVE WalkBack(_, _, _)
\* while (iter->virt >= virt) iter--;   0 when the walk leaves the vector
WalkBack(b, iter, virt) ==
    IF iter < 1 \/ iter > Len(b) THEN 0
    ELSE IF b[iter].virt >= virt THEN WalkBack(b, iter - 1, virt)
    ELSE iter

----------------------------------------------------------------------------
(* FlatAddressSpaceMap::MapLocked *)

\* The second half of MapLocked: from the walk to the start successor on
MapLockedHead(b, blockEndSuccessor, virt, phys, size, extraInfo) ==
    LET virtEnd == (virt + size) % VaModulus
        startPredecessor == WalkBack(b, blockEndSuccessor - 1, virt)
        blockStartSuccessor == startPredecessor + 1
    IN IF startPredecessor = 0 THEN Thrown(b, "ub")
       ELSE IF b[blockStartSuccessor].virt > virtEnd THEN Thrown(b, "consistency")
       ELSE IF b[blockStartSuccessor].virt = virtEnd
            THEN Returned(InsertAt(b, blockStartSuccessor, <<Block(virt, phys, extraInfo)>>),
                          virt, size)
       ELSE LET erased == IF blockStartSuccessor + 1 # blockEndSuccessor
                          THEN EraseRange(b, blockStartSuccessor + 1, blockEndSuccessor)
                          ELSE b
            IN Returned([erased EXCEPT ![blockStartSuccessor] = Block(virt, phys, extraInfo)],
                        virt, size)

\* MapLocked with a tail that inherits the backing of the Block it splits
\* verbatim, whatever PaContigSplit is
MapLocked_TailVerbatim(b, virt, phys, size, extraInfo) ==
    LET virtEnd == (virt + size) % VaModulus
        blockEndSuccessor == LowerBound(b, virtEnd)
        blockEndPredecessor == blockEndSuccessor - 1
        tailPhys == b[blockEndPredecessor].phys
    IN IF virtEnd > vaLimit THEN Thrown(b, "bounds")
       ELSE IF blockEndSuccessor = 1 THEN Thrown(b, "bounds")
       ELSE IF blockEndSuccessor # Len(b) + 1
       THEN IF b[blockEndSuccessor].virt # virtEnd
            THEN IF b[blockEndPredecessor].virt >= virt
                 THEN MapLockedHead(
                          [b EXCEPT ![blockEndPredecessor] =
                              Block(virtEnd, tailPhys, b[blockEndPredecessor].extraInfo)],
                          blockEndPredecessor, virt, phys, size, extraInfo)
                 ELSE Returned(InsertAt(b, blockEndSuccessor,
                                   <<Block(virt, phys, extraInfo),
                                     Block(virtEnd, tailPhys, b[blockEndPredecessor].extraInfo)>>),
                               virt, size)
            ELSE MapLockedHead(b, blockEndSuccessor, virt, phys, size, extraInfo)
       ELSE IF blockEndPredecessor # 1 /\ b[blockEndPredecessor].virt >= virt
            THEN MapLockedHead([b EXCEPT ![blockEndPredecessor].virt = virtEnd],
                               blockEndPredecessor, virt, phys, size, extraInfo)
            ELSE Returned(InsertAt(b, blockEndSuccessor,
                              <<Block(virt, phys, extraInfo),
                                Block(virtEnd, UnmappedPa, FALSE)>>),
                          virt, size)

MapLocked(b, virt, phys, size, extraInfo) ==
    LET virtEnd == (virt + size) % VaModulus
        blockEndSuccessor == LowerBound(b, virtEnd)
        blockEndPredecessor == blockEndSuccessor - 1
        tailPhys == IF ~PaContigSplit \/ Unmapped(b[blockEndPredecessor])
                    THEN b[blockEndPredecessor].phys
                    ELSE b[blockEndPredecessor].phys + virtEnd - b[blockEndPredecessor].virt
    IN IF virtEnd > vaLimit THEN Thrown(b, "bounds")
       ELSE IF blockEndSuccessor = 1 THEN Thrown(b, "bounds")
       ELSE IF blockEndSuccessor # Len(b) + 1
       THEN IF b[blockEndSuccessor].virt # virtEnd
            THEN IF b[blockEndPredecessor].virt >= virt
                 THEN MapLockedHead(
                          [b EXCEPT ![blockEndPredecessor] =
                              Block(virtEnd, tailPhys, b[blockEndPredecessor].extraInfo)],
                          blockEndPredecessor, virt, phys, size, extraInfo)
                 ELSE Returned(InsertAt(b, blockEndSuccessor,
                                   <<Block(virt, phys, extraInfo),
                                     Block(virtEnd, tailPhys, b[blockEndPredecessor].extraInfo)>>),
                               virt, size)
            ELSE MapLockedHead(b, blockEndSuccessor, virt, phys, size, extraInfo)
       ELSE IF blockEndPredecessor # 1 /\ b[blockEndPredecessor].virt >= virt
            THEN MapLockedHead([b EXCEPT ![blockEndPredecessor].virt = virtEnd],
                               blockEndPredecessor, virt, phys, size, extraInfo)
            ELSE Returned(InsertAt(b, blockEndSuccessor,
                              <<Block(virt, phys, extraInfo),
                                Block(virtEnd, UnmappedPa, FALSE)>>),
                          virt, size)

----------------------------------------------------------------------------
(* FlatAddressSpaceMap::UnmapLocked *)

\* The lambda eraseBlocksWithEndUnmapped, followed by the caller's return
EraseBlocksWithEndUnmapped(b, unmappedEnd, virt, size) ==
    LET blockStartPredecessor == WalkBack(b, unmappedEnd, virt)
        blockStartSuccessor == blockStartPredecessor + 1
        predUnmapped == Unmapped(b[blockStartPredecessor])
        b1 == IF predUnmapped THEN b ELSE [b EXCEPT ![unmappedEnd].virt = virt]
        eraseEnd == IF predUnmapped THEN unmappedEnd + 1 ELSE unmappedEnd
    IN IF blockStartPredecessor = 0 THEN Thrown(b, "ub")
       ELSE IF eraseEnd # Len(b1) + 1
               /\ (eraseEnd = blockStartSuccessor
                   \/ (predUnmapped /\ Unmapped(b1[eraseEnd])))
            THEN Thrown(b1, "consistency")
       ELSE IF blockStartSuccessor > eraseEnd THEN Thrown(b1, "ub")
       ELSE Returned(EraseRange(b1, blockStartSuccessor, eraseEnd), virt, size)

\* The second half of UnmapLocked: from the walk to the start predecessor on
UnmapLockedHead(b, blockEndSuccessor, blockEndPredecessor, virt, size) ==
    LET virtEnd == (virt + size) % VaModulus
        blockStartPredecessor == WalkBack(b, blockEndSuccessor, virt)
        blockStartSuccessor == blockStartPredecessor + 1
    IN IF blockStartPredecessor = 0 \/ blockStartSuccessor > Len(b) THEN Thrown(b, "ub")
       ELSE IF b[blockStartSuccessor].virt > virtEnd THEN Thrown(b, "consistency")
       ELSE IF b[blockStartSuccessor].virt = virtEnd
            THEN IF Mapped(b[blockStartPredecessor])
                 THEN Returned(InsertAt(b, blockStartSuccessor,
                                   <<Block(virt, UnmappedPa, FALSE)>>), virt, size)
                 ELSE Returned(b, virt, size)
       ELSE IF Unmapped(b[blockStartPredecessor])
            THEN IF blockStartSuccessor > blockEndPredecessor THEN Thrown(b, "ub")
                 ELSE Returned(EraseRange(b, blockStartSuccessor, blockEndPredecessor),
                               virt, size)
       ELSE LET erased == IF blockStartSuccessor + 1 # blockEndSuccessor
                          THEN EraseRange(b, blockStartSuccessor + 1, blockEndSuccessor)
                          ELSE b
            IN IF blockStartSuccessor + 1 > blockEndSuccessor THEN Thrown(b, "ub")
               ELSE Returned([erased EXCEPT ![blockStartSuccessor].virt = virt,
                                            ![blockStartSuccessor].phys = UnmappedPa],
                             virt, size)

UnmapLocked(b, virt, size) ==
    LET virtEnd == (virt + size) % VaModulus
        blockEndSuccessor == LowerBound(b, virtEnd)
        blockEndPredecessor == blockEndSuccessor - 1
        tailPhys == IF PaContigSplit
                    THEN b[blockEndPredecessor].phys + virtEnd - b[blockEndPredecessor].virt
                    ELSE b[blockEndPredecessor].phys
    IN IF virtEnd > vaLimit THEN Thrown(b, "bounds")
       ELSE IF blockEndSuccessor = 1 THEN Thrown(b, "bounds")
       ELSE IF Unmapped(b[blockEndPredecessor])
            THEN IF b[blockEndPredecessor].virt > virt
                 THEN EraseBlocksWithEndUnmapped(b, blockEndPredecessor, virt, size)
                 ELSE Returned(b, virt, size)
       \* blockEndSuccessor is dereferenced here even when it is blocks.end()
       ELSE IF blockEndSuccessor = Len(b) + 1 THEN Thrown(b, "ub")
       ELSE IF b[blockEndSuccessor].virt = virtEnd /\ Unmapped(b[blockEndSuccessor])
            THEN EraseBlocksWithEndUnmapped(b, blockEndSuccessor, virt, size)
       ELSE IF b[blockEndSuccessor].virt # virtEnd
            THEN IF b[blockEndPredecessor].virt >= virt
                 THEN UnmapLockedHead(
                          [b EXCEPT ![blockEndPredecessor].virt = virtEnd,
                                    ![blockEndPredecessor].phys = tailPhys],
                          blockEndPredecessor, blockEndPredecessor - 1, virt, size)
                 ELSE Returned(InsertAt(b, blockEndSuccessor,
                                   <<Block(virt, UnmappedPa, FALSE),
                                     Block(virtEnd, tailPhys, b[blockEndPredecessor].extraInfo)>>),
                               virt, size)
       ELSE UnmapLockedHead(b, blockEndSuccessor, blockEndPredecessor, virt, size)

----------------------------------------------------------------------------
(* Queries *)

\* The Block an address resolves to: the predecessor of std::upper_bound, as
\* in TranslateRange, Read, Write and Copy
Predecessor(b, a) == UpperBound(b, a) - 1

\* The value an address resolves to: <<backing of that byte, extraInfo>>; an
\* unmapped Block's backing is never offset, and without PaContigSplit the
\* backing is one value for the whole Block
Resolve(b, a) ==
    LET blk == b[Predecessor(b, a)]
    IN IF Unmapped(blk) THEN <<UnmappedPa, FALSE>>
       ELSE IF PaContigSplit THEN <<blk.phys + (a - blk.virt), blk.extraInfo>>
       ELSE <<blk.phys, blk.extraInfo>>

\* FlatMemoryManager::sparseMap, the host address of the zeroed sparse map
sparseMap == 90

Min(x, y) == IF x < y THEN x ELSE y

RECURSIVE TranslateLoop(_, _, _, _, _, _, _)
\* TranslateLoop without the reload of blockPhys from the next Block
TranslateLoop_StalePhys(b, predecessor, successor, blockPhys, blockSize, size, ranges) ==
    IF size = 0 THEN [status |-> "ok", ranges |-> ranges]
    ELSE LET cpuBlock == <<IF b[predecessor].extraInfo THEN sparseMap ELSE blockPhys,
                           blockSize>>
             rest == size - blockSize
         IN IF rest = 0 THEN [status |-> "ok", ranges |-> Append(ranges, cpuBlock)]
            ELSE IF successor + 1 > Len(b)
                 THEN [status |-> "ub", ranges |-> Append(ranges, cpuBlock)]
            ELSE TranslateLoop(b, successor, successor + 1, blockPhys,
                               Min((b[successor + 1].virt - b[successor].virt) % VaModulus,
                                   rest),
                               rest, Append(ranges, cpuBlock))

\* The while (size) loop of TranslateRange.  ranges is the list of spans
\* <<host address, size>> pushed so far; reading successor->virt at end()
\* leaves the vector.
TranslateLoop(b, predecessor, successor, blockPhys, blockSize, size, ranges) ==
    IF size = 0 THEN [status |-> "ok", ranges |-> ranges]
    ELSE LET cpuBlock == <<IF b[predecessor].extraInfo THEN sparseMap ELSE blockPhys,
                           blockSize>>
             rest == size - blockSize
         IN IF rest = 0 THEN [status |-> "ok", ranges |-> Append(ranges, cpuBlock)]
            ELSE IF successor + 1 > Len(b)
                 THEN [status |-> "ub", ranges |-> Append(ranges, cpuBlock)]
            ELSE TranslateLoop(b, successor, successor + 1, b[successor].phys,
                               Min((b[successor + 1].virt - b[successor].virt) % VaModulus,
                                   rest),
                               rest, Append(ranges, cpuBlock))

\* FlatMemoryManager::TranslateRange
TranslateRange(b, virt, size) ==
    LET successor == UpperBound(b, virt)
        predecessor == successor - 1
    IN IF predecessor < 1 \/ successor > Len(b)
       THEN [status |-> "ub", ranges |-> <<>>]
       ELSE TranslateLoop(b, predecessor, successor,
                          b[predecessor].phys + (virt - b[predecessor].virt),
                          Min((b[successor].virt - virt) % VaModulus, size),
                          size, <<>>)

----------------------------------------------------------------------------
(* The map on its own: Map and Unmap calls from any caller *)

\* The block vector is followed while it holds at most this many Blocks: the
\* vaLimit + 1 a well-formed vector can hold and one more, for the Blocks that
\* calls with virt = 0, size = 0 or a wrapping end leave behind
MaxBlocks == vaLimit + 2

\* The record kept of the most recent call
Called(op, status) == [op |-> op, status |-> status]

\* The object is alive: no call has thrown or left the vector so far
Live == call.status \in {"init", "ok"}

\* The threads that call into one map
NumThreads == 2

Threads == 1..NumThreads

\* No thread is in a call and blockMutex is free
LockInit ==
    /\ pc = [t \in Threads |-> <<"idle", "none">>]
    /\ blockMutex = {}
    /\ allocated = {}

\* span<u8>{ptr, size}
Span(ptr, size) == [ptr |-> ptr, size |-> size]

\* A default-constructed span
EmptySpan == Span(0, 0)

\* kernel::MemoryManager as constructed: no reservation, no chunks
KernelInit ==
    /\ chunks = <<>>
    /\ addressSpace = EmptySpan
    /\ base = EmptySpan
    /\ regions = [r \in {"code", "alias", "heap", "stack", "tlsIo"} |-> EmptySpan]
    /\ released = <<>>
    /\ maps = <<>>
    /\ hostCalls = <<>>

\* PAGE_SIZE, in units of 1 KiB
PAGE_SIZE == 4

\* The host pages that are trapped
TrapPages == 2

\* The most trap handles that are registered at a time
MaxHandles == 2

TrapHandles == 1..MaxHandles

\* NCE::TrapProtection
None == 0
WriteOnly == 1
ReadWrite == 2

\* A handle that is not registered
NoEntry == [registered |-> FALSE, intervals |-> {}, protection |-> None]

\* No protection fault is being handled and none was in the last step
NoFault ==
    [phase |-> "idle", handled |-> "none", address |-> 0, write |-> FALSE,
     snapshot |-> {}, called |-> {}, raced |-> {}]

\* nce::NCE as constructed: no traps, every page accessible
TrapInit ==
    /\ trapMap = [h \in TrapHandles |-> NoEntry]
    /\ pageProt = [p \in 0..(TrapPages - 1) |-> None]
    /\ fault = NoFault

\* The Textures that back the view, one after the other
NumTextures == 2

Textures == 1..NumTextures

\* A thread that is in no call of the view
ViewIdle == [at |-> "idle", op |-> "none", backing |-> 0, latest |-> 0, success |-> FALSE]

\* The view is backed by the first Texture, and no Texture is locked
ViewInit ==
    /\ texture = 1
    /\ textureMutex = [m \in Textures |-> 0]
    /\ viewPc = [t \in Threads |-> ViewIdle]

OutsideInit == LockInit /\ KernelInit /\ TrapInit /\ ViewInit

Init ==
    /\ blocks = InitialBlocks
    /\ PaContigSplit \in BOOLEAN
    /\ vaStart = 0
    /\ currentLinearAllocEnd = 0
    /\ call = Called("none", "init")
    /\ OutsideInit

\* FlatAddressSpaceMap::Map
Map ==
    /\ Live
    /\ \E virt \in VaType, size \in VaType, in \in MapInputs :
          LET r == MapLocked(blocks, virt, in[1], size, in[2])
          IN /\ Len(r.blocks) <= MaxBlocks
             /\ blocks' = r.blocks
             /\ call' = Called("Map", r.status)
    /\ UNCHANGED <<PaContigSplit, vaStart, currentLinearAllocEnd>>
    /\ UNCHANGED outside

\* FlatAddressSpaceMap::Unmap
Unmap ==
    /\ Live
    /\ \E virt \in VaType, size \in VaType :
          LET r == UnmapLocked(blocks, virt, size)
          IN /\ Len(r.blocks) <= MaxBlocks
             /\ blocks' = r.blocks
             /\ call' = Called("Unmap", r.status)
    /\ UNCHANGED <<PaContigSplit, vaStart, currentLinearAllocEnd>>
    /\ UNCHANGED outside

Next == Map \/ Unmap

Spec == Init /\ [][Next]_vars

----------------------------------------------------------------------------
(* The map under callers that pass only non-empty ranges inside the space: *)
(* Map and Unmap as above, with virt + size <= vaLimit and size > 0        *)

Inside(virt, size) == size > 0 /\ virt + size <= vaLimit

MapInside ==
    /\ Live
    /\ \E virt \in VaType, size \in VaType, in \in MapInputs :
          /\ Inside(virt, size)
          /\ LET r == MapLocked(blocks, virt, in[1], size, in[2])
             IN /\ blocks' = r.blocks
                /\ call' = Called("Map", r.status)
    /\ UNCHANGED <<PaContigSplit, vaStart, currentLinearAllocEnd>>
    /\ UNCHANGED outside

UnmapInside ==
    /\ Live
    /\ \E virt \in VaType, size \in VaType :
          /\ Inside(virt, size)
          /\ LET r == UnmapLocked(blocks, virt, size)
             IN /\ blocks' = r.blocks
                /\ call' = Called("Unmap", r.status)
    /\ UNCHANGED <<PaContigSplit, vaStart, currentLinearAllocEnd>>
    /\ UNCHANGED outside

NextInside == MapInside \/ UnmapInside

SpecInside == Init /\ [][NextInside]_vars

----------------------------------------------------------------------------
(* FlatAllocator: Allocate, AllocateFixed and Free on a map whose PaType   *)
(* is bool and whose PaContigSplit is false.  An Allocate call yields      *)
(* [blocks, cursor, status, ret]: the vector and currentLinearAllocEnd it  *)
(* leaves, how it ended and the value it returned.                         *)

RECURSIVE LinearSkip(_, _, _, _)
\* The loop that skips over fixed mappings in front of the linear cursor;
\* yields allocStart, UnmappedVa when the loop ends without setting it
LinearSkip(b, allocEndPredecessor, allocEndSuccessor, size) ==
    IF allocEndSuccessor = Len(b) + 1 THEN UnmappedVa
    ELSE IF (b[allocEndSuccessor].virt - b[allocEndPredecessor].virt) % VaModulus < size
            \/ Mapped(b[allocEndPredecessor])
         THEN b[allocEndPredecessor].virt
    ELSE IF allocEndSuccessor + 1 = Len(b) + 1
         THEN LET allocEnd == (b[allocEndSuccessor].virt + size) % VaModulus
              IN IF allocEnd >= b[allocEndSuccessor].virt /\ allocEnd <= vaLimit
                 THEN b[allocEndSuccessor].virt
                 ELSE UnmappedVa
    ELSE LinearSkip(b, allocEndSuccessor, allocEndSuccessor + 1, size)

\* The linear attempt of Allocate: [status, allocStart]
LinearAlloc(b, cursor, size) ==
    LET allocEnd == (cursor + size) % VaModulus
        allocEndSuccessor == LowerBound(b, allocEnd)
        allocEndPredecessor == allocEndSuccessor - 1
    IN IF ~(allocEnd >= cursor /\ allocEnd <= vaLimit)
       THEN [status |-> "ok", allocStart |-> UnmappedVa]
       ELSE IF allocEndSuccessor = 1
       THEN [status |-> "invalid", allocStart |-> UnmappedVa]
       ELSE IF b[allocEndPredecessor].virt <= cursor
       THEN [status |-> "ok", allocStart |-> cursor]
       ELSE [status |-> "ok",
             allocStart |-> LinearSkip(b, allocEndPredecessor, allocEndSuccessor, size)]

RECURSIVE GapSearch(_, _, _, _)
\* The first-fit scan of Allocate; yields searchSuccessor when the loop ends
GapSearch(b, searchPredecessor, searchSuccessor, size) ==
    IF searchSuccessor # Len(b) + 1
       /\ ((b[searchSuccessor].virt - b[searchPredecessor].virt) % VaModulus < size
           \/ Mapped(b[searchPredecessor]))
    THEN GapSearch(b, searchSuccessor, searchSuccessor + 1, size)
    ELSE searchSuccessor

\* The end of Allocate: MapLocked(allocStart, true, size, {}) and the return
AllocMapped(b, cursor, allocStart, size) ==
    LET r == MapLocked(b, allocStart, AllocPa, size, FALSE)
    IN [blocks |-> r.blocks, cursor |-> cursor, status |-> r.status,
        ret |-> IF r.status = "ok" THEN allocStart ELSE UnmappedVa]

\* FlatAllocator::Allocate
Allocate(b, cursor, size) ==
    LET linear == LinearAlloc(b, cursor, size)
        searchSuccessor == GapSearch(b, 1, 2, size)
    IN IF linear.status # "ok"
       THEN [blocks |-> b, cursor |-> cursor, status |-> linear.status, ret |-> UnmappedVa]
       ELSE IF linear.allocStart # UnmappedVa
       THEN AllocMapped(b, (linear.allocStart + size) % VaModulus, linear.allocStart, size)
       ELSE IF Len(b) <= 2
       THEN [blocks |-> b, cursor |-> cursor, status |-> "state", ret |-> UnmappedVa]
       ELSE IF searchSuccessor # Len(b) + 1
       THEN AllocMapped(b, cursor, b[searchSuccessor - 1].virt, size)
       ELSE [blocks |-> b, cursor |-> cursor, status |-> "ok", ret |-> UnmappedVa]

\* The values the constructor's vaStart argument is drawn from
VaStarts == {0, 1}

InitAlloc ==
    /\ blocks = InitialBlocks
    /\ PaContigSplit = FALSE
    /\ vaStart \in VaStarts
    /\ currentLinearAllocEnd = vaStart
    /\ call = Called("none", "init")
    /\ OutsideInit

\* FlatAllocator::Allocate
DoAllocate ==
    /\ Live
    /\ \E size \in VaType :
          LET r == Allocate(blocks, currentLinearAllocEnd, size)
          IN /\ Len(r.blocks) <= MaxBlocks
             /\ blocks' = r.blocks
             /\ currentLinearAllocEnd' = r.cursor
             /\ call' = Called("Allocate", r.status)
    /\ UNCHANGED <<PaContigSplit, vaStart>>
    /\ UNCHANGED outside

\* FlatAllocator::AllocateFixed
AllocateFixed ==
    /\ Live
    /\ \E virt \in VaType, size \in VaType :
          LET r == MapLocked(blocks, virt, AllocPa, size, FALSE)
          IN /\ Len(r.blocks) <= MaxBlocks
             /\ blocks' = r.blocks
             /\ call' = Called("AllocateFixed", r.status)
    /\ UNCHANGED <<PaContigSplit, vaStart, currentLinearAllocEnd>>
    /\ UNCHANGED outside

\* FlatAllocator::Free
Free ==
    /\ Live
    /\ \E virt \in VaType, size \in VaType :
          LET r == UnmapLocked(blocks, virt, size)
          IN /\ Len(r.blocks) <= MaxBlocks
             /\ blocks' = r.blocks
             /\ call' = Called("Free", r.status)
    /\ UNCHANGED <<PaContigSplit, vaStart, currentLinearAllocEnd>>
    /\ UNCHANGED outside

NextAlloc == DoAllocate \/ AllocateFixed \/ Free

SpecAlloc == InitAlloc /\ [][NextAlloc]_vars

----------------------------------------------------------------------------
(* Properties of the block vector *)

\* No two Blocks share a start address and the starts ascend
StrictlySorted(b) == \A i \in 1..(Len(b) - 1) : b[i].virt < b[i + 1].virt

\* The vector ends with exactly one terminating unmapped Block
SentinelTerminated(b) ==
    Unmapped(b[Len(b)]) /\ (Len(b) > 1 => Mapped(b[Len(b) - 1]))

NoAdjacentUnmapped(b) ==
    \A i \in 1..(Len(b) - 1) : ~(Unmapped(b[i]) /\ Unmapped(b[i + 1]))

\* A vector that satisfies every invariant the map documents and starts at
\* the space origin with all its Blocks inside the limit
WellFormed(b) ==
    /\ StrictlySorted(b)
    /\ SentinelTerminated(b)
    /\ NoAdjacentUnmapped(b)
    /\ b[1].virt = 0
    /\ \A i \in 1..Len(b) : b[i].virt <= vaLimit

\* A range whose true end is inside the limit and that is neither empty nor at
\* the space origin
InBounds(virt, size) == virt > 0 /\ size > 0 /\ virt + size <= vaLimit

Range(virt, size) == virt..(virt + size - 1)

\* The value Map(virt, phys, size, extraInfo) is to install at address a
Installed(virt, phys, extraInfo, a) ==
    <<IF PaContigSplit THEN phys + (a - virt) ELSE phys, extraInfo>>

----------------------------------------------------------------------------
(* Claims C1 to C5: the map's invariants, Unmap and Map *)

\* C1: starting from a fresh map, after every sequence of Map and Unmap calls
\* that return normally the Block sequence is strictly ascending by virt and
\* ends with exactly one terminating unmapped Block.
\* Violated: Map(0, p, 1) on the fresh map returns normally and leaves two
\* Blocks that start at 0.
C1_SortedWithSentinel == Live => StrictlySorted(blocks) /\ SentinelTerminated(blocks)

\* C2: after every sequence of Map calls (with a mapped backing value) and
\* Unmap calls that return normally, no two adjacent Blocks are both unmapped.
\* Violated through calls whose end virt + size wraps around VaType.
C2_NoAdjacentUnmapped == Live => NoAdjacentUnmapped(blocks)

\* C3: on any reachable Block sequence, after Unmap(virt, size) with virt > 0,
\* size > 0 and virt + size <= vaLimit returns normally, every address of
\* [virt, virt + size) resolves to the unmapped backing value.
\* Violated on well-formed sequences: when the Block before the range is
\* unmapped and the range ends where a mapped Block starts, UnmapLocked erases
\* the Blocks from the start successor up to the end predecessor only.
C3_UnmapClearsRange ==
    (Live /\ WellFormed(blocks)) =>
        \A virt \in VaType, size \in VaType :
            InBounds(virt, size) =>
                LET r == UnmapLocked(blocks, virt, size)
                IN r.status = "ok" =>
                       \A a \in Range(virt, size) : Resolve(r.blocks, a)[1] = UnmappedPa

\* C4: on any reachable Block sequence, after Map(virt, backing, size, extra)
\* with virt > 0, size > 0 and virt + size <= vaLimit returns normally, every
\* address a of [virt, virt + size) resolves to backing + (a - virt) with
\* extraInfo = extra.
\* Violated on the sequences that a call with a wrapping end leaves behind.
C4_MapInstallsRange ==
    Live =>
        \A virt \in VaType, size \in VaType, in \in MapInputs :
            InBounds(virt, size) =>
                LET r == MapLocked(blocks, virt, in[1], size, in[2])
                IN r.status = "ok" =>
                       \A a \in Range(virt, size) :
                           Resolve(r.blocks, a) = Installed(virt, in[1], in[2], a)

\* C5: on a Block sequence that satisfies the invariants, a Map or Unmap of an
\* in-bounds range with virt > 0 and size > 0 never raises a consistency
\* error.
\* Violated: Unmap of the end of a mapped Block that an unmapped Block follows
\* raises 'Multiple contiguous unmapped regions are unsupported!'.
C5_NoConsistencyError ==
    (Live /\ WellFormed(blocks)) =>
        \A virt \in VaType, size \in VaType :
            InBounds(virt, size) =>
                /\ UnmapLocked(blocks, virt, size).status # "consistency"
                /\ \A in \in MapInputs :
                       MapLocked(blocks, virt, in[1], size, in[2]).status # "consistency"

----------------------------------------------------------------------------
(* Claims C6 to C8: round trip, adjacent maps and the bounds errors *)

\* C6: Map(v, p, n) immediately followed by Unmap(v, n) leaves the resolution
\* of every address of [v, v + n) equal to what it was before the Map.  Stated
\* here for the ranges where that can be met at all, those that were unmapped
\* before the Map, on well-formed sequences.
\* Violated: the Unmap returns normally and leaves the range mapped (C3).
C6_MapUnmapRoundTrip ==
    (Live /\ WellFormed(blocks)) =>
        \A v \in VaType, n \in VaType, in \in MapInputs :
            (InBounds(v, n) /\ \A a \in Range(v, n) : Resolve(blocks, a)[1] = UnmappedPa) =>
                LET m == MapLocked(blocks, v, in[1], n, in[2])
                    u == UnmapLocked(m.blocks, v, n)
                IN (m.status = "ok" /\ u.status = "ok") =>
                       \A a \in Range(v, n) : Resolve(u.blocks, a) = Resolve(blocks, a)

\* One model address stands for one 4096-byte page: [0, 4096) is [0, 1) and
\* [4096, 8192) is [1, 2); 10 and 11 are the backings p and p + 4096.
TwoMaps == MapLocked(MapLocked(InitialBlocks, 0, 10, 1, FALSE).blocks, 1, 11, 1, FALSE).blocks

OneMap == MapLocked(InitialBlocks, 0, 10, 2, FALSE).blocks

RECURSIVE Bytes(_)
\* The host addresses a list of spans covers, in order
Bytes(ranges) ==
    IF ranges = <<>> THEN <<>>
    ELSE [i \in 1..ranges[1][2] |-> ranges[1][1] + i - 1] \o Bytes(Tail(ranges))

\* C7 as the spec states it: with PaContigSplit, Map of [0, 4096) with backing
\* p then Map of [4096, 8192) with backing p + 4096 yields a single Block
\* spanning [0, 8192): the same Block sequence and the same TranslateRange
\* result as after one Map(0, p, 8192).
\* Violated: MapLocked never merges two mapped Blocks.
C7_SingleBlock ==
    (PaContigSplit /\ blocks = TwoMaps) =>
        /\ blocks = OneMap
        /\ TranslateRange(blocks, 0, 2) = TranslateRange(OneMap, 0, 2)

\* C7, amended: the two Maps leave two mapped Blocks, one per call, where the
\* single Map leaves one; every address of [0, 8192) resolves to the same
\* backing and extraInfo in both states, and TranslateRange returns two spans
\* in place of one, which cover the same host bytes in the same order.
C7_SameBytesTwoBlocks ==
    (PaContigSplit /\ blocks = TwoMaps) =>
        /\ Len(blocks) = Len(OneMap) + 1
        /\ \A a \in Range(0, 2) : Resolve(blocks, a) = Resolve(OneMap, a)
        /\ TranslateRange(blocks, 0, 2).status = "ok"
        /\ TranslateRange(OneMap, 0, 2).status = "ok"
        /\ Len(TranslateRange(blocks, 0, 2).ranges) = 2
        /\ Len(TranslateRange(OneMap, 0, 2).ranges) = 1
        /\ Bytes(TranslateRange(blocks, 0, 2).ranges) = Bytes(TranslateRange(OneMap, 0, 2).ranges)

\* C7's case: the second of the two Maps has just returned
C7_Witness ==
    PaContigSplit /\ call.op = "Map" /\ call.status = "ok" /\ blocks = TwoMaps

\* C8: Map and Unmap raise the bounds error whenever virt + size exceeds
\* vaLimit or the range lies before the first Block's start, and then leave
\* the Block sequence as it was and do not invoke the unmap callback.
\* Violated: when virt + size wraps around VaType the calls compare the wrapped
\* end with vaLimit and go on to change the sequence (C38).
C8_BoundsError ==
    (Live /\ WellFormed(blocks)) =>
        \A virt \in VaType, size \in VaType :
            (virt + size > vaLimit \/ virt + size <= blocks[1].virt) =>
                /\ UnmapLocked(blocks, virt, size) = Thrown(blocks, "bounds")
                /\ \A in \in MapInputs :
                       MapLocked(blocks, virt, in[1], size, in[2]) = Thrown(blocks, "bounds")

----------------------------------------------------------------------------
(* Claims C9 and C10: the allocator, under SpecAlloc *)

\* The cursor is where the constructor or a linear allocation can leave it
CursorInRange == vaStart <= currentLinearAllocEnd /\ currentLinearAllocEnd <= vaLimit

\* An unmapped gap of at least size addresses exists in [vaStart, vaLimit)
GapExists(b, size) ==
    \E start \in vaStart..vaLimit :
        /\ start + size <= vaLimit
        /\ \A a \in Range(start, size) : Resolve(b, a)[1] = UnmappedPa

\* C9: every range [a, a + size) returned by Allocate(size) is disjoint from
\* every range that is mapped at the time of the call.
\* Violated: the linear path takes the cursor as the start whenever no Block
\* starts between the cursor and the end, without looking at whether the
\* Block that covers the cursor is mapped.
C9_AllocateDisjoint ==
    (Live /\ WellFormed(blocks) /\ CursorInRange) =>
        \A size \in VaType \ {0} :
            LET r == Allocate(blocks, currentLinearAllocEnd, size)
            IN (r.status = "ok" /\ r.ret # UnmappedVa) =>
                   \A a \in Range(r.ret, size) : Resolve(blocks, a)[1] = UnmappedPa

\* C10: when Allocate(size) cannot place the request it returns the empty
\* result as a normal value, throws nothing and leaves the Block sequence and
\* the linear cursor unchanged.
\* Violated: with at most two Blocks in the vector (a fresh allocator) the
\* gap search throws 'Unexpected allocator state!'.
C10_NoSpaceIsNormal ==
    (Live /\ WellFormed(blocks) /\ CursorInRange) =>
        \A size \in VaType \ {0} :
            ~GapExists(blocks, size) =>
                Allocate(blocks, currentLinearAllocEnd, size) =
                    [blocks |-> blocks, cursor |-> currentLinearAllocEnd,
                     status |-> "ok", ret |-> UnmappedVa]

----------------------------------------------------------------------------
(* Claim C11: completeness of the allocator, under SpecAlloc *)

\* [start, start + size) lies in [vaStart, vaLimit) and is unmapped in b
InsideGap(b, start, size) ==
    /\ vaStart <= start
    /\ start + size <= vaLimit
    /\ \A a \in Range(start, size) : Resolve(b, a)[1] = UnmappedPa

\* C11: Allocate(size) returns the empty result only if no unmapped gap of at
\* least size addresses exists in [vaStart, vaLimit), the gap of the
\* terminating Block up to vaLimit included; whenever such a gap exists,
\* Allocate returns a range inside one.
\* Stated for allocators whose vaStart is not the value of the empty result.
\* Violated: once the cursor has passed a range that Free unmapped again, the
\* linear path no longer fits and the gap search throws on a vector of at
\* most two Blocks; and the linear path returns a mapped range (C9).
C11_AllocateFindsGap ==
    (Live /\ WellFormed(blocks) /\ CursorInRange /\ vaStart # UnmappedVa) =>
        \A size \in VaType \ {0} :
            GapExists(blocks, size) =>
                LET r == Allocate(blocks, currentLinearAllocEnd, size)
                IN /\ r.status = "ok"
                   /\ r.ret # UnmappedVa
                   /\ InsideGap(blocks, r.ret, size)

----------------------------------------------------------------------------
(* FlatMemoryManager: Read, Write and Copy.  Host memory is not held in    *)
(* the state: an accessor yields the list of its effects.  A byte read     *)
(* from host address h is written h, a byte set by memset is ZeroByte.     *)
(* status is "ok" for a normal return, "fault" for the 'Page fault'        *)
(* exception (fault is the address it carries) and "ub" when               *)
(* successor->virt is read at blocks.end().                                *)

\* The value of a byte that std::memset(destination, 0, n) stores
ZeroByte == 0

\* The host addresses phys, phys + 1, ... of a span of n bytes
HostBytes(phys, n) == [i \in 1..n |-> phys + i - 1]

Zeroes(n) == [i \in 1..n |-> ZeroByte]

RECURSIVE ReadLoop(_, _, _, _, _, _, _, _)
\* The while (size) loop of Read.  dest is what has been copied to the
\* destination so far, cb the spans handed to cpuAccessCallback.
ReadLoop(b, predecessor, successor, blockPhys, blockReadSize, size, dest, cb) ==
    IF size = 0 THEN [status |-> "ok", fault |-> 0, dest |-> dest, cb |-> cb]
    ELSE IF b[predecessor].phys = UnmappedPa
    THEN [status |-> "fault", fault |-> b[predecessor].virt, dest |-> dest, cb |-> cb]
    ELSE LET sparse == b[predecessor].extraInfo
             dest1 == dest \o (IF sparse THEN Zeroes(blockReadSize)
                                         ELSE HostBytes(blockPhys, blockReadSize))
             cb1 == IF sparse THEN cb ELSE Append(cb, <<blockPhys, blockReadSize>>)
             rest == size - blockReadSize
         IN IF rest = 0 THEN [status |-> "ok", fault |-> 0, dest |-> dest1, cb |-> cb1]
            ELSE IF successor + 1 > Len(b)
                 THEN [status |-> "ub", fault |-> 0, dest |-> dest1, cb |-> cb1]
            ELSE ReadLoop(b, successor, successor + 1, b[successor].phys,
                          Min((b[successor + 1].virt - b[successor].virt) % VaModulus, rest),
                          rest, dest1, cb1)

\* Read without the offset of virt inside the first Block
Read_NoOffset(b, virt, size) ==
    LET successor == UpperBound(b, virt)
        predecessor == successor - 1
    IN IF predecessor < 1 \/ successor > Len(b)
       THEN [status |-> "ub", fault |-> 0, dest |-> <<>>, cb |-> <<>>]
       ELSE ReadLoop(b, predecessor, successor,
                     b[predecessor].phys,
                     Min((b[successor].virt - virt) % VaModulus, size),
                     size, <<>>, <<>>)

\* FlatMemoryManager::Read
Read(b, virt, size) ==
    LET successor == UpperBound(b, virt)
        predecessor == successor - 1
    IN IF predecessor < 1 \/ successor > Len(b)
       THEN [status |-> "ub", fault |-> 0, dest |-> <<>>, cb |-> <<>>]
       ELSE ReadLoop(b, predecessor, successor,
                     b[predecessor].phys + (virt - b[predecessor].virt),
                     Min((b[successor].virt - virt) % VaModulus, size),
                     size, <<>>, <<>>)

RECURSIVE WriteLoop(_, _, _, _, _, _, _, _, _)
\* The while (size) loop of Write.  written lists <<host address, index of
\* the source byte stored there>>; done is the number of source bytes passed.
WriteLoop(b, predecessor, successor, blockPhys, blockWriteSize, size, done, written, cb) ==
    IF size = 0 THEN [status |-> "ok", fault |-> 0, written |-> written, cb |-> cb]
    ELSE IF b[predecessor].phys = UnmappedPa
    THEN [status |-> "fault", fault |-> b[predecessor].virt, written |-> written, cb |-> cb]
    ELSE LET sparse == b[predecessor].extraInfo
             written1 == written \o (IF sparse THEN <<>>
                                     ELSE [i \in 1..blockWriteSize |->
                                              <<blockPhys + i - 1, done + i>>])
             cb1 == IF sparse THEN cb ELSE Append(cb, <<blockPhys, blockWriteSize>>)
             rest == size - blockWriteSize
         IN IF rest = 0
            THEN [status |-> "ok", fault |-> 0, written |-> written1, cb |-> cb1]
            ELSE IF successor + 1 > Len(b)
                 THEN [status |-> "ub", fault |-> 0, written |-> written1, cb |-> cb1]
            ELSE WriteLoop(b, successor, successor + 1, b[successor].phys,
                           Min((b[successor + 1].virt - b[successor].virt) % VaModulus, rest),
                           rest, done + blockWriteSize, written1, cb1)

\* Write that treats a sparse Block as an ordinary one
Write_SparseStored(b, virt, size) ==
    LET plain == [i \in 1..Len(b) |-> [b[i] EXCEPT !.extraInfo = FALSE]]
        successor == UpperBound(b, virt)
        predecessor == successor - 1
    IN IF predecessor < 1 \/ successor > Len(b)
       THEN [status |-> "ub", fault |-> 0, written |-> <<>>, cb |-> <<>>]
       ELSE WriteLoop(plain, predecessor, successor,
                      b[predecessor].phys + (virt - b[predecessor].virt),
                      Min((b[successor].virt - virt) % VaModulus, size),
                      size, 0, <<>>, <<>>)

\* FlatMemoryManager::Write
Write(b, virt, size) ==
    LET successor == UpperBound(b, virt)
        predecessor == successor - 1
    IN IF predecessor < 1 \/ successor > Len(b)
       THEN [status |-> "ub", fault |-> 0, written |-> <<>>, cb |-> <<>>]
       ELSE WriteLoop(b, predecessor, successor,
                      b[predecessor].phys + (virt - b[predecessor].virt),
                      Min((b[successor].virt - virt) % VaModulus, size),
                      size, 0, <<>>, <<>>)

\* The least of the first and the last argument: the rest of the destination
\* Block is left out
Min3_NoDestination(x, y, z) == Min(x, z)

\* std::min({a, b, c})
Min3(x, y, z) == Min(Min(x, y), z)

RECURSIVE CopyLoop(_, _, _, _, _, _, _, _, _, _, _, _)
\* The while (size) loop of Copy.  sp, ss, dp and ds are srcPredecessor,
\* srcSuccessor, dstPredecessor and dstSuccessor; srcRem and dstRem are
\* srcBlockRemainingSize and dstBlockRemainingSize.  acc.written lists
\* <<destination host address, source host address or ZeroByte>>.
CopyLoop(b, sp, ss, dp, ds, srcBlockPhys, dstBlockPhys, srcRem, dstRem, blockCopySize, size, acc) ==
    IF size = 0 THEN [status |-> "ok", fault |-> 0, written |-> acc.written, cb |-> acc.cb]
    ELSE IF b[sp].phys = UnmappedPa
    THEN [status |-> "fault", fault |-> b[sp].virt, written |-> acc.written, cb |-> acc.cb]
    ELSE IF b[dp].phys = UnmappedPa
    THEN [status |-> "fault", fault |-> b[dp].virt, written |-> acc.written, cb |-> acc.cb]
    ELSE LET sparse == b[sp].extraInfo
             written1 == acc.written \o
                 [i \in 1..blockCopySize |->
                     <<dstBlockPhys + i - 1,
                       IF sparse THEN ZeroByte ELSE srcBlockPhys + i - 1>>]
             cb1 == IF sparse THEN acc.cb
                    ELSE acc.cb \o << <<dstBlockPhys, blockCopySize>>,
                                      <<srcBlockPhys, blockCopySize>> >>
             acc1 == [written |-> written1, cb |-> cb1]
             rest == size - blockCopySize
             srcRem1 == srcRem - blockCopySize
             dstRem1 == dstRem - blockCopySize
             srcNext == srcRem1 = 0
             dstNext == dstRem1 = 0
         IN IF rest = 0
            THEN [status |-> "ok", fault |-> 0, written |-> written1, cb |-> cb1]
            ELSE IF \/ srcNext /\ ss + 1 > Len(b)
                    \/ dstNext /\ ds + 1 > Len(b)
                 THEN [status |-> "ub", fault |-> 0, written |-> written1, cb |-> cb1]
            ELSE LET sp2 == IF srcNext THEN ss ELSE sp
                     ss2 == IF srcNext THEN ss + 1 ELSE ss
                     srcPhys2 == IF srcNext THEN b[ss].phys
                                 ELSE srcBlockPhys + blockCopySize
                     srcRem2 == IF srcNext
                                THEN (b[ss + 1].virt - b[ss].virt) % VaModulus
                                ELSE srcRem1
                     dp2 == IF dstNext THEN ds ELSE dp
                     ds2 == IF dstNext THEN ds + 1 ELSE ds
                     dstPhys2 == IF dstNext THEN b[ds].phys
                                 ELSE dstBlockPhys + blockCopySize
                     dstRem2 == IF dstNext
                                THEN (b[ds + 1].virt - b[ds].virt) % VaModulus
                                ELSE dstRem1
                 IN CopyLoop(b, sp2, ss2, dp2, ds2, srcPhys2, dstPhys2, srcRem2, dstRem2,
                             IF srcNext \/ dstNext THEN Min3(srcRem2, dstRem2, rest)
                                                   ELSE blockCopySize,
                             rest, acc1)

\* FlatMemoryManager::Copy
Copy(b, dst, src, size) ==
    LET srcSuccessor == UpperBound(b, src)
        dstSuccessor == UpperBound(b, dst)
        srcPredecessor == srcSuccessor - 1
        dstPredecessor == dstSuccessor - 1
    IN IF \/ srcPredecessor < 1 \/ srcSuccessor > Len(b)
          \/ dstPredecessor < 1 \/ dstSuccessor > Len(b)
       THEN [status |-> "ub", fault |-> 0, written |-> <<>>, cb |-> <<>>]
       ELSE LET srcRem == (b[srcSuccessor].virt - src) % VaModulus
                dstRem == (b[dstSuccessor].virt - dst) % VaModulus
            IN CopyLoop(b, srcPredecessor, srcSuccessor, dstPredecessor, dstSuccessor,
                        b[srcPredecessor].phys + (src - b[srcPredecessor].virt),
                        b[dstPredecessor].phys + (dst - b[dstPredecessor].virt),
                        srcRem, dstRem, Min3(srcRem, dstRem, size), size,
                        [written |-> <<>>, cb |-> <<>>])

\* The requests made of the accessors: every start of the address space and
\* one past it, every size up to the whole space
AccessVa == 0..vaLimit

\* An accessor has returned or thrown.  It leaves blocks as they are, so a
\* run is continued from the state before the access, not from this one.
Accessed(op, virt, size, result) ==
    [op |-> op, status |-> "accessed", virt |-> virt, size |-> size, result |-> result]

DoRead ==
    /\ Live
    /\ \E virt \in AccessVa, size \in AccessVa :
        call' = Accessed("Read", virt, size, Read(blocks, virt, size))
    /\ UNCHANGED <<blocks, PaContigSplit, vaStart, currentLinearAllocEnd>>
    /\ UNCHANGED outside

DoWrite ==
    /\ Live
    /\ \E virt \in AccessVa, size \in AccessVa :
        call' = Accessed("Write", virt, size, Write(blocks, virt, size))
    /\ UNCHANGED <<blocks, PaContigSplit, vaStart, currentLinearAllocEnd>>
    /\ UNCHANGED outside

DoTranslateRange ==
    /\ Live
    /\ \E virt \in AccessVa, size \in AccessVa :
        call' = Accessed("TranslateRange", virt, size, TranslateRange(blocks, virt, size))
    /\ UNCHANGED <<blocks, PaContigSplit, vaStart, currentLinearAllocEnd>>
    /\ UNCHANGED outside

DoCopy ==
    /\ Live
    /\ \E dst \in AccessVa, src \in AccessVa, size \in AccessVa :
        call' = Accessed("Copy", <<dst, src>>, size, Copy(blocks, dst, src, size))
    /\ UNCHANGED <<blocks, PaContigSplit, vaStart, currentLinearAllocEnd>>
    /\ UNCHANGED outside

\* FlatMemoryManager derives from the map with PaContigSplit = true
InitMM == Init /\ PaContigSplit = TRUE

NextMM ==
    \/ MapInside
    \/ UnmapInside
    \/ DoRead
    \/ DoWrite
    \/ DoTranslateRange
    \/ DoCopy

SpecMM == InitMM /\ [][NextMM]_vars

----------------------------------------------------------------------------
(* Claims C12 to C15: the accessors of FlatMemoryManager *)

\* Address a lies in a mapped Block that is not sparse
BackedPlain(b, a) == Resolve(b, a)[1] # UnmappedPa /\ ~Resolve(b, a)[2]

\* Address a lies in a mapped sparse Block
BackedSparse(b, a) == Resolve(b, a)[1] # UnmappedPa /\ Resolve(b, a)[2]

\* C12: a Read of a range that lies in backed, non-sparse Blocks, starting at
\* any offset inside the first of them and crossing any number of them,
\* returns normally and stores in the destination exactly size bytes: for each
\* address of the range in order, the byte at the host address of its Block's
\* backing plus the address's offset in that Block.
C12_ReadConcatenates ==
    (/\ call.op = "Read"
     /\ call.size > 0
     /\ \A a \in Range(call.virt, call.size) : BackedPlain(blocks, a)) =>
        /\ call.result.status = "ok"
        /\ call.result.dest =
               [i \in 1..call.size |-> Resolve(blocks, call.virt + i - 1)[1]]

\* A Read that started inside its first Block and crossed into a second one
C12_Witness ==
    /\ call.op = "Read"
    /\ call.result.status = "ok"
    /\ \A a \in Range(call.virt, call.size) : BackedPlain(blocks, a)
    /\ Len(call.result.cb) >= 2
    /\ call.virt > blocks[Predecessor(blocks, call.virt)].virt

\* C13: a Write whose range lies in sparse Blocks returns normally, stores no
\* byte in any backing memory and invokes no access callback; a Read of the
\* same range afterwards returns normally with size zero bytes, none of them
\* read from a Block's backing, and invokes no access callback either.
C13_SparseWriteIgnored ==
    (/\ call.op = "Write"
     /\ call.size > 0
     /\ \A a \in Range(call.virt, call.size) : BackedSparse(blocks, a)) =>
        /\ call.result.status = "ok"
        /\ call.result.written = <<>>
        /\ call.result.cb = <<>>
        /\ LET r == Read(blocks, call.virt, call.size)
           IN /\ r.status = "ok"
              /\ r.dest = Zeroes(call.size)
              /\ r.cb = <<>>

\* A Write to a range of two sparse Blocks has returned
C13_Witness ==
    /\ call.op = "Write"
    /\ call.result.status = "ok"
    /\ call.size >= 2
    /\ \A a \in Range(call.virt, call.size) : BackedSparse(blocks, a)
    /\ Predecessor(blocks, call.virt) # Predecessor(blocks, call.virt + call.size - 1)

\* The range [virt, virt + size) lies in the address space and holds an
\* address of an unmapped Block
TouchesUnbacked(b, virt, size) ==
    /\ size > 0
    /\ virt + size <= vaLimit
    /\ \E a \in Range(virt, size) : Resolve(b, a)[1] = UnmappedPa

\* The lowest address of the range that lies in an unmapped Block
FirstUnbacked(b, virt, size) ==
    CHOOSE a \in Range(virt, size) :
        /\ Resolve(b, a)[1] = UnmappedPa
        /\ \A c \in Range(virt, a - virt) : Resolve(b, c)[1] # UnmappedPa

\* C14: TranslateRange, Read, Write and Copy, called on a range that touches
\* an unbacked Block, report a page fault instead of returning, and the
\* address reported is the first unbacked address of the requested range (for
\* Copy, of its source or of its destination range).
\* Violated: Read, Write and Copy report predecessor->virt, the start of the
\* unmapped Block, whatever the request's start inside it; TranslateRange has
\* no fault at all and returns a span at nullptr plus the offset; a request
\* that starts in the last Block reads successor->virt at blocks.end().
C14_PageFaultAddress ==
    /\ (call.op \in {"Read", "Write"}
            /\ TouchesUnbacked(blocks, call.virt, call.size)) =>
           /\ call.result.status = "fault"
           /\ call.result.fault = FirstUnbacked(blocks, call.virt, call.size)
    /\ (call.op = "TranslateRange"
            /\ TouchesUnbacked(blocks, call.virt, call.size)) =>
           call.result.status = "fault"
    /\ (call.op = "Copy"
            /\ \/ TouchesUnbacked(blocks, call.virt[1], call.size)
               \/ TouchesUnbacked(blocks, call.virt[2], call.size)) =>
           /\ call.result.status = "fault"
           /\ \E v \in {call.virt[1], call.virt[2]} :
                  /\ TouchesUnbacked(blocks, v, call.size)
                  /\ call.result.fault = FirstUnbacked(blocks, v, call.size)

----------------------------------------------------------------------------
(* The map's lock.  Every operation opens with                             *)
(* std::scoped_lock lock(this->blockMutex) and holds the lock until it     *)
(* returns or throws; AllocateFixed and Free take it inside Map and Unmap. *)
(* SpecLock follows the threads through the lock only: what a call does to *)
(* blocks while it holds the lock is the action of its name above.         *)

Accessors == {"Read", "Write", "Copy", "TranslateRange"}

Mutators == {"Map", "Unmap", "Allocate", "AllocateFixed", "Free"}

Idle == <<"idle", "none">>

\* Thread t is blocked in, or about to run, the constructor of the scoped_lock
AtLock(t) == pc[t][1] = "lock"

\* Thread t is past the scoped_lock's constructor and before its destructor
InsideOp(t) == pc[t][1] = "in"

\* scoped_lock without the wait for blockMutex
ScopedLock_NoWait(holders) == TRUE

\* std::scoped_lock calls blockMutex.lock(), which returns once no thread
\* holds the mutex
ScopedLock(holders) == holders = {}

\* Thread t calls operation op and reaches its scoped_lock
CallOp(t) ==
    /\ pc[t] = Idle
    /\ \E op \in Accessors \cup Mutators : pc' = [pc EXCEPT ![t] = <<"lock", op>>]
    /\ UNCHANGED <<blocks, PaContigSplit, vaStart, currentLinearAllocEnd, call, blockMutex, allocated,
                   kernelVars, trapVars, viewVars>>

\* The scoped_lock's constructor returns in thread t
Acquire(t) ==
    /\ AtLock(t)
    /\ ScopedLock(blockMutex)
    /\ blockMutex' = blockMutex \cup {t}
    /\ pc' = [pc EXCEPT ![t] = <<"in", pc[t][2]>>]
    /\ UNCHANGED <<blocks, PaContigSplit, vaStart, currentLinearAllocEnd, call, allocated, kernelVars,
                   trapVars, viewVars>>

\* The operation returns or throws in thread t: the scoped_lock's destructor
\* unlocks blockMutex
Release(t) ==
    /\ InsideOp(t)
    /\ blockMutex' = blockMutex \ {t}
    /\ pc' = [pc EXCEPT ![t] = Idle]
    /\ UNCHANGED <<blocks, PaContigSplit, vaStart, currentLinearAllocEnd, call, allocated, kernelVars,
                   trapVars, viewVars>>

NextLock ==
    \E t \in Threads :
        \/ CallOp(t)
        \/ Acquire(t)
        \/ Release(t)

SpecLock == Init /\ [][NextLock]_vars

----------------------------------------------------------------------------
(* kernel::MemoryManager.  Host addresses and sizes are counted in units   *)
(* of 1 MiB (2^20 bytes), so that the 39-bit address space is 2^19 units   *)
(* and the region alignment of 2 MiB is 2 units.                           *)

\* RegionAlignment, 1 << 21 bytes
RegionAlignment == 2

\* CodeRegionSize, 4 GiB
CodeRegionSize == 4096

\* The size of the 39-bit address space, 1 << 39 bytes
AddressSpace39Bit == 524288

\* The first address the carveout search considers, 1 << 35 bytes
CarveoutStart == 32768

\* The sizes of the alias, heap, stack and TLS/IO regions of a 39-bit space
AliasSize == 65536
HeapSize == 6144
StackSize == 2048
TlsIoSize == 65536

\* baseSize of a 39-bit address space
BaseSize39Bit == CodeRegionSize + AliasSize + HeapSize + StackSize + TlsIoSize

\* ChunkDescriptor; st, permission and attributes are what IsCompatible compares
ChunkDescriptor(ptr, size, st, permission, attributes) ==
    [ptr |-> ptr, size |-> size, state |-> st,
     permission |-> permission, attributes |-> attributes]

\* ChunkDescriptor::IsCompatible
IsCompatible(c, d) ==
    /\ c.state = d.state
    /\ c.permission = d.permission
    /\ c.attributes = d.attributes

\* The chunks InitializeVmm sets up: reserved below base, unmapped in base,
\* reserved above it.  Fields left out of the initializer are value-initialized.
InitialChunks(as, b) ==
    << ChunkDescriptor(as.ptr, b.ptr - as.ptr, "Reserved", "---", 0),
       ChunkDescriptor(b.ptr, b.size, "Unmapped", "---", 0),
       ChunkDescriptor(b.ptr + b.size, as.size - (b.ptr + b.size), "Reserved", "---", 0) >>

RECURSIVE PtrUpperBound(_, _, _, _)
\* std::upper_bound(first, first + len, ptr, ptr < chunk.ptr)
PtrUpperBound(c, first, len, ptr) ==
    IF len = 0 THEN first
    ELSE LET half == len \div 2
             mid == first + half
         IN IF ptr < c[mid].ptr
            THEN PtrUpperBound(c, first, half, ptr)
            ELSE PtrUpperBound(c, mid + 1, len - (half + 1), ptr)

RECURSIVE EndUpperBound(_, _, _, _)
\* std::upper_bound(first, first + len, ptr, ptr < chunk.ptr + chunk.size)
EndUpperBound(c, first, len, ptr) ==
    IF len = 0 THEN first
    ELSE LET half == len \div 2
             mid == first + half
         IN IF ptr < c[mid].ptr + c[mid].size
            THEN EndUpperBound(c, first, half, ptr)
            ELSE EndUpperBound(c, mid + 1, len - (half + 1), ptr)

\* The outcome of InsertChunk: the chunk list and how the call ended
Inserted(c, status) == [chunks |-> c, status |-> status]

\* InsertChunk from auto lower{std::prev(upper)} on: c is the list after the
\* erase and the trim of upper, upper the position of the first chunk that
\* ends after the new chunk
InsertChunkAt(c, upper, chunk) ==
    LET chunkEnd == chunk.ptr + chunk.size
        lower == upper - 1
        L == c[lower]
    IN IF L.ptr = chunk.ptr /\ L.size = chunk.size
       THEN Inserted([c EXCEPT ![lower].state = chunk.state,
                               ![lower].permission = chunk.permission,
                               ![lower].attributes = chunk.attributes], "ok")
       ELSE IF L.ptr + L.size > chunkEnd
       THEN LET lowerExtension == [L EXCEPT !.ptr = chunkEnd,
                                            !.size = (L.ptr + L.size) - chunkEnd]
                c1 == [c EXCEPT ![lower].size = chunk.ptr - L.ptr]
            IN IF c1[lower].size # 0
               THEN Inserted(InsertAt(c1, upper, <<chunk, lowerExtension>>), "ok")
               ELSE LET lower2 == lower - 1
                    IN IF lower2 < 1 THEN Inserted(c1, "ub")
                       ELSE IF /\ IsCompatible(chunk, c1[lower2])
                               /\ c1[lower2].ptr + c1[lower2].size >= chunk.ptr
                       THEN LET c2 == [c1 EXCEPT ![lower2].size = chunkEnd - c1[lower2].ptr]
                            IN Inserted(InsertAt(EraseRange(c2, lower, lower + 1), lower,
                                                 <<lowerExtension>>), "ok")
                       ELSE Inserted(InsertAt([c1 EXCEPT ![lower] = chunk], upper,
                                              <<lowerExtension>>), "ok")
       ELSE IF IsCompatible(chunk, L) /\ L.ptr + L.size >= chunk.ptr
       THEN Inserted([c EXCEPT ![lower].size = chunkEnd - L.ptr], "ok")
       ELSE LET c1 == IF L.ptr + L.size > chunk.ptr
                      THEN [c EXCEPT ![lower].size = chunk.ptr - L.ptr]
                      ELSE c
            IN IF /\ upper <= Len(c1)
                  /\ IsCompatible(chunk, c1[upper])
                  /\ chunkEnd >= c1[upper].ptr
               THEN Inserted([c1 EXCEPT ![upper].ptr = chunk.ptr,
                                        ![upper].size = chunk.size + c1[upper].size], "ok")
               ELSE Inserted(InsertAt(c1, upper, <<chunk>>), "ok")

\* MemoryManager::InsertChunk
InsertChunk(c, chunk) ==
    LET chunkEnd == chunk.ptr + chunk.size
        upper == PtrUpperBound(c, 1, Len(c), chunk.ptr)
    IN IF upper = 1 THEN Inserted(c, "outside")
       ELSE LET last == EndUpperBound(c, upper, Len(c) + 1 - upper, chunkEnd)
                c1 == EraseRange(c, upper, last)
                c2 == IF upper <= Len(c1) /\ c1[upper].ptr < chunkEnd
                      THEN [c1 EXCEPT ![upper].ptr = chunkEnd,
                                      ![upper].size = (c1[upper].ptr + c1[upper].size) - chunkEnd]
                      ELSE c1
            IN InsertChunkAt(c2, upper, chunk)

\* std::nullopt
NoChunk == [ptr |-> 0, size |-> 0, state |-> "nullopt", permission |-> "---", attributes |-> 0]

\* MemoryManager::Get
Get(c, ptr) ==
    LET chunk == PtrUpperBound(c, 1, Len(c), ptr)
    IN IF chunk # 1 /\ c[chunk - 1].ptr + c[chunk - 1].size > ptr
       THEN c[chunk - 1]
       ELSE NoChunk

\* The number of 1 MiB cells at the start of the reservation in which chunks
\* are inserted
ChunkCells == 2

\* The addresses at which an inserted chunk starts or ends: the start of the
\* address space, the last cell below the reservation and the first cells of it
ChunkBounds == {0} \cup {base.ptr - 1 + i : i \in 0..(ChunkCells + 1)}

\* Runs are followed while the list holds at most one chunk for each cell and
\* four more
MaxChunks == ChunkCells + 4

\* The state, permission and attributes of the chunks inserted
ChunkKinds == {<<"Unmapped", "---", 0>>, <<"Heap", "RW-", 0>>, <<"Heap", "R--", 0>>}

\* The reservation of a 39-bit address space on a host whose maps leave the
\* range above 1 << 35 free, as InitializeVmm sets it up
InitChunks ==
    /\ blocks = InitialBlocks
    /\ PaContigSplit = TRUE
    /\ vaStart = 0
    /\ currentLinearAllocEnd = 0
    /\ call = Called("none", "init")
    /\ LockInit
    /\ TrapInit
    /\ ViewInit
    /\ addressSpace = Span(0, AddressSpace39Bit)
    /\ base = Span(CarveoutStart, BaseSize39Bit)
    /\ chunks = InitialChunks(addressSpace, base)
    /\ regions = [r \in {"code", "alias", "heap", "stack", "tlsIo"} |-> EmptySpan]
    /\ released = <<>>
    /\ maps = <<>>
    /\ hostCalls = <<>>

DoInsertChunk ==
    /\ Live
    /\ \E ptr \in ChunkBounds, end \in ChunkBounds, kind \in ChunkKinds :
        /\ ptr < end
        /\ LET chunk == ChunkDescriptor(ptr, end - ptr, kind[1], kind[2], kind[3])
               r == InsertChunk(chunks, chunk)
           IN /\ Len(r.chunks) <= MaxChunks
              /\ chunks' = r.chunks
              /\ call' = [op |-> "InsertChunk", status |-> r.status,
                          chunk |-> chunk]
    /\ UNCHANGED <<blocks, PaContigSplit, vaStart, currentLinearAllocEnd, lockVars, trapVars, viewVars,
                   addressSpace, base, regions, released, maps, hostCalls>>

\* Get leaves the list as it is; a run is continued from the state before it
DoGet ==
    /\ Live
    /\ \E ptr \in ChunkBounds \cup {addressSpace.size - 1} :
        call' = [op |-> "Get", status |-> "accessed", ptr |-> ptr,
                 result |-> Get(chunks, ptr)]
    /\ UNCHANGED <<blocks, PaContigSplit, vaStart, currentLinearAllocEnd, lockVars, trapVars, viewVars,
                   kernelVars>>

NextChunks ==
    \/ DoInsertChunk
    \/ DoGet

SpecChunks == InitChunks /\ [][NextChunks]_vars

----------------------------------------------------------------------------
(* Claims C16 and C17: the Chunk Descriptor list *)

ChunkEnd(d) == d.ptr + d.size

ChunksSorted(c) == \A i \in 1..(Len(c) - 1) : c[i].ptr < c[i + 1].ptr

ChunksDisjoint(c) == \A i \in 1..(Len(c) - 1) : ChunkEnd(c[i]) <= c[i + 1].ptr

NoAdjacentCompatible(c) == \A i \in 1..(Len(c) - 1) : ~IsCompatible(c[i], c[i + 1])

RECURSIVE TrimAll(_, _)
\* What is left of each chunk of c once the range of chunk is cut out of it,
\* with chunk itself in the place of the cut
TrimAll(c, chunk) ==
    IF c = <<>> THEN <<>>
    ELSE LET d == Head(c)
             left == IF d.ptr < chunk.ptr
                     THEN <<[d EXCEPT !.size = Min(ChunkEnd(d), chunk.ptr) - d.ptr]>>
                     ELSE <<>>
             here == IF d.ptr <= chunk.ptr /\ chunk.ptr < ChunkEnd(d) THEN <<chunk>> ELSE <<>>
             right == IF ChunkEnd(d) > ChunkEnd(chunk)
                      THEN LET from == IF d.ptr > ChunkEnd(chunk) THEN d.ptr
                                       ELSE ChunkEnd(chunk)
                           IN <<[d EXCEPT !.ptr = from, !.size = ChunkEnd(d) - from]>>
                      ELSE <<>>
         IN left \o here \o right \o TrimAll(Tail(c), chunk)

RECURSIVE MergeAll(_)
\* Adjacent compatible chunks of c joined into one
MergeAll(c) ==
    IF Len(c) < 2 THEN c
    ELSE IF IsCompatible(c[1], c[2]) /\ ChunkEnd(c[1]) = c[2].ptr
         THEN MergeAll(<<[c[1] EXCEPT !.size = c[1].size + c[2].size]>> \o SubSeq(c, 3, Len(c)))
         ELSE <<c[1]>> \o MergeAll(Tail(c))

\* The single-pass overlap-trim-merge of chunk into c
OverlapTrimMerge(c, chunk) == MergeAll(TrimAll(c, chunk))

\* C16: after any sequence of InsertChunk calls on the initial three chunks,
\* the chunk list is sorted by pointer, its chunks do not overlap and no two
\* adjacent chunks are compatible; and each insert leaves the list that the
\* overlap-trim-merge of the inserted chunk leaves.
\* Violated: a chunk that replaces an existing one exactly, or that is cut
\* out of the inside of one, is not merged with its neighbours, and one that
\* extends its left neighbour is not merged with the right one.
C16_ChunksMerged ==
    (call.op \in {"none", "InsertChunk"} /\ call.status \in {"init", "ok"}) =>
        /\ ChunksSorted(chunks)
        /\ ChunksDisjoint(chunks)
        /\ NoAdjacentCompatible(chunks)
        /\ \A ptr \in ChunkBounds, end \in ChunkBounds, kind \in ChunkKinds :
               ptr < end =>
                   LET chunk == ChunkDescriptor(ptr, end - ptr, kind[1], kind[2], kind[3])
                       r == InsertChunk(chunks, chunk)
                   IN /\ r.status = "ok"
                      /\ r.chunks = OverlapTrimMerge(chunks, chunk)

\* state, permission and attributes of the chunk Get returns
Kind(d) == <<d.state, d.permission, d.attributes>>

\* The addresses at which Get is compared before and after an insert
Probes == (ChunkBounds \cup {p - 1 : p \in ChunkBounds \ {0}}
              \cup {addressSpace.size - 1}) \ {addressSpace.size}

\* C17: InsertChunk(c) with c inside the address space and c.size > 0
\* returns, and afterwards Get(p) has c's state, permission and attributes for
\* every p in [c.ptr, c.ptr + c.size) and, for every other p, those it had
\* before the insert.
\* Violated: for a chunk that starts where the first chunk of the list starts
\* and ends inside it, InsertChunk takes std::prev of chunks.begin() and reads
\* the descriptor there.  Every insert that starts further up satisfies C17.
C17_GetAfterInsert ==
    (call.op \in {"none", "InsertChunk"} /\ call.status \in {"init", "ok"}) =>
        \A ptr \in ChunkBounds, end \in ChunkBounds, kind \in ChunkKinds :
            ptr < end =>
                LET chunk == ChunkDescriptor(ptr, end - ptr, kind[1], kind[2], kind[3])
                    r == InsertChunk(chunks, chunk)
                IN /\ r.status = "ok"
                   /\ \A p \in Probes :
                          Kind(Get(r.chunks, p)) =
                              IF ptr <= p /\ p < end THEN Kind(chunk)
                              ELSE Kind(Get(chunks, p))

----------------------------------------------------------------------------
(* MemoryManager::InitializeVmm and InitializeRegions.  /proc/self/maps is *)
(* a sequence of characters; its addresses are in the same 1 MiB units as  *)
(* everything else, which is the text the host prints with the five        *)
(* trailing zero digits of every address left out.                         *)

\* sizeof(u64) * 2, the length of the views InitializeVmm parses
TypeNibbles == 16

HexChars == <<"0", "1", "2", "3", "4", "5", "6", "7",
              "8", "9", "a", "b", "c", "d", "e", "f">>

UpperHexChars == <<"0", "1", "2", "3", "4", "5", "6", "7",
                   "8", "9", "A", "B", "C", "D", "E", "F">>

\* The value HexStringToInt gives a digit, or -1 for any other character
HexDigitValue(ch) ==
    IF \E i \in 1..16 : HexChars[i] = ch
    THEN (CHOOSE i \in 1..16 : HexChars[i] = ch) - 1
    ELSE IF \E i \in 1..16 : UpperHexChars[i] = ch
    THEN (CHOOSE i \in 1..16 : UpperHexChars[i] = ch) - 1
    ELSE -1

RECURSIVE NibblesValue(_)
\* result >> (offset + 4): the nibbles stored from bit 60 downwards, moved
\* down so that the last one stored is the lowest
NibblesValue(nibbles) ==
    IF nibbles = <<>> THEN 0
    ELSE NibblesValue(SubSeq(nibbles, 1, Len(nibbles) - 1)) * 16 + nibbles[Len(nibbles)]

RECURSIVE HexLoop(_, _, _)
\* The for loop of HexStringToInt: each digit is stored in result at offset,
\* offset goes down by 4, the first character that is no digit ends the loop
HexLoop(string, index, nibbles) ==
    IF index > Len(string) THEN nibbles
    ELSE IF HexDigitValue(string[index]) < 0 THEN nibbles
    ELSE HexLoop(string, index + 1, Append(nibbles, HexDigitValue(string[index])))

\* util::HexStringToInt<u64>.  With no digit at all the shift is by 64 bits,
\* of a result that is 0.
HexStringToInt(string) ==
    IF Len(string) > TypeNibbles THEN -1
    ELSE NibblesValue(HexLoop(string, 1, <<>>))

\* std::string::npos
npos == -1

\* std::string_view(maps.data() + pos, n); positions count from 0, and the
\* character after the last one of the text is the terminating NUL
View(text, pos, n) == SubSeq(text, pos + 1, Min(pos + n, Len(text)))

\* maps.find_first_of(ch, pos)
FindFirstOf(text, ch, pos) ==
    IF \E i \in pos..(Len(text) - 1) : text[i + 1] = ch
    THEN CHOOSE i \in pos..(Len(text) - 1) :
             /\ text[i + 1] = ch
             /\ \A j \in pos..(i - 1) : text[j + 1] # ch
    ELSE npos

\* AlignUp without the rounding
AlignUp_None(value, multiple) == value

\* util::AlignUp: multiple is a power of 2, so the mask ~(multiple - 1) clears
\* the remainder of the division by multiple
AlignUp(value, multiple) ==
    LET m == multiple - 1
    IN (value + m) - ((value + m) % multiple)

\* util::IsAligned
IsAligned(value, multiple) == value % multiple = 0

RECURSIVE CarveoutSearch(_, _, _, _, _, _)
\* The do-while loop of InitializeVmm: the base it assigns, or EmptySpan
CarveoutSearch(text, line, start, alignedStart, baseSize, asSize) ==
    LET end == HexStringToInt(View(text, line, TypeNibbles))
        found == end >= start /\ end - start > baseSize + (alignedStart - start)
        start1 == IF end < start THEN start
                  ELSE HexStringToInt(View(text, FindFirstOf(text, "-", line) + 1, TypeNibbles))
        aligned1 == IF end < start THEN alignedStart ELSE AlignUp(start1, RegionAlignment)
        newline == FindFirstOf(text, "\n", line)
    IN IF found THEN Span(alignedStart, baseSize)
       ELSE IF end >= start /\ aligned1 + baseSize > asSize THEN EmptySpan
       ELSE IF newline = npos \/ newline = 0 THEN EmptySpan
       ELSE CarveoutSearch(text, newline + 1, start1, aligned1, baseSize, asSize)

\* MemoryManager::InitializeVmm: the address space and base it leaves and how
\* it ends.  memfd_create, ftruncate and mmap are taken to succeed.
InitializeVmm(text, type) ==
    IF type = "AddressSpace32Bit"
    THEN [status |-> "unsupported", addressSpace |-> EmptySpan, base |-> EmptySpan]
    ELSE IF type = "AddressSpace36Bit"
    THEN [status |-> "unsupported", addressSpace |-> Span(0, AddressSpace39Bit \div 8),
          base |-> EmptySpan]
    ELSE LET as == Span(0, AddressSpace39Bit)
             b == CarveoutSearch(text, 0, CarveoutStart, CarveoutStart, BaseSize39Bit, as.size)
         IN IF b.ptr = 0
            THEN [status |-> "nocarveout", addressSpace |-> as, base |-> b]
            ELSE [status |-> "ok", addressSpace |-> as, base |-> b]

\* size_t arithmetic wraps.  Nothing in the model reaches 2^30 units otherwise,
\* so the wrap is kept with this modulus.
SizeModulus == 1073741824

\* MemoryManager::InitializeRegions: the regions it assigns, the munmap
\* requests it makes and how it ends
InitializeRegions(as, b, codeRegion) ==
    LET none == [r \in {"code", "alias", "heap", "stack", "tlsIo"} |-> EmptySpan]
    IN IF ~IsAligned(codeRegion.ptr, RegionAlignment)
       THEN [status |-> "nonaligned", regions |-> none, released |-> <<>>]
       ELSE IF as.size = AddressSpace39Bit \div 8
       THEN LET code == Span(8, 1920)
                alias == Span(code.ptr + code.size, 6144)
                stack == Span(alias.ptr + alias.size, 1920)
                heap == Span(stack.ptr + stack.size, 6144)
                rs == [code |-> code, alias |-> alias, heap |-> heap,
                       stack |-> stack, tlsIo |-> stack]
                newSize == code.size + alias.size + stack.size + heap.size
            IN IF \/ code.ptr > codeRegion.ptr
                  \/ code.ptr + code.size < codeRegion.ptr + codeRegion.size
               THEN [status |-> "larger", regions |-> [none EXCEPT !.code = code],
                     released |-> <<>>]
               ELSE IF newSize > b.size
               THEN [status |-> "exceeded", regions |-> rs, released |-> <<>>]
               ELSE LET rel == IF newSize # b.size
                               THEN <<Span(b.ptr + b.size, (newSize - b.size) % SizeModulus)>>
                               ELSE <<>>
                    IN IF codeRegion.size > code.size
                       THEN [status |-> "smaller", regions |-> rs, released |-> rel]
                       ELSE [status |-> "ok", regions |-> rs, released |-> rel]
       ELSE IF as.size # AddressSpace39Bit
       THEN [status |-> "novmm", regions |-> none, released |-> <<>>]
       ELSE LET code == Span(b.ptr, AlignUp(codeRegion.size, RegionAlignment))
                alias == Span(code.ptr + code.size, AliasSize)
                heap == Span(alias.ptr + alias.size, HeapSize)
                stack == Span(heap.ptr + heap.size, StackSize)
                tlsIo == Span(stack.ptr + stack.size, TlsIoSize)
                rs == [code |-> code, alias |-> alias, heap |-> heap,
                       stack |-> stack, tlsIo |-> tlsIo]
                newSize == code.size + alias.size + stack.size + heap.size + tlsIo.size
            IN IF newSize > b.size
               THEN [status |-> "exceeded", regions |-> rs, released |-> <<>>]
               ELSE LET rel == IF newSize # b.size
                               THEN <<Span(b.ptr + b.size, (newSize - b.size) % SizeModulus)>>
                               ELSE <<>>
                    IN IF codeRegion.size > code.size
                       THEN [status |-> "smaller", regions |-> rs, released |-> rel]
                       ELSE [status |-> "ok", regions |-> rs, released |-> rel]

\* The host prints an address with at least this many digits (%08lx, less the
\* five digits left out)
MinHexDigits == 3

RECURSIVE ToHex(_, _)
\* The host's formatting of an address: lower-case digits, zero-padded
ToHex(n, digits) ==
    IF n = 0 /\ digits <= 0 THEN <<>>
    ELSE Append(ToHex(n \div 16, digits - 1), HexChars[(n % 16) + 1])

\* One line of /proc/self/maps for the region [r[1], r[2])
MapsLine(r) ==
    ToHex(r[1], MinHexDigits) \o <<"-">> \o ToHex(r[2], MinHexDigits)
        \o <<" ", "r", "-", "x", "p", "\n">>

RECURSIVE MapsText(_)
MapsText(layout) ==
    IF layout = <<>> THEN <<>> ELSE MapsLine(Head(layout)) \o MapsText(Tail(layout))

\* The most regions a host layout holds
MaxHostRegions == 2

\* The addresses at which host regions start and end: around 1 << 35, around
\* the end of a reservation placed there, and at the end of the address space
HostBounds ==
    {1, CarveoutStart - 1, CarveoutStart, CarveoutStart + 1,
     CarveoutStart + BaseSize39Bit, CarveoutStart + BaseSize39Bit + 1,
     CarveoutStart + BaseSize39Bit + 3, AddressSpace39Bit}

HostRegions == {r \in HostBounds \X HostBounds : r[1] < r[2]}

\* The host's mapped regions, sorted by address and not overlapping
HostLayouts ==
    {layout \in UNION {[1..n -> HostRegions] : n \in 1..MaxHostRegions} :
        \A i \in 1..(Len(layout) - 1) : layout[i][2] <= layout[i + 1][1]}

\* The code regions InitializeRegions is called with: at the base or two
\* units above it or not aligned, empty up to one unit more than CodeRegionSize
CodeRegions ==
    {Span(base.ptr + d, size) :
        d \in {0, 1, 2},
        size \in {0, 1, 2, 3, CodeRegionSize - 1, CodeRegionSize, CodeRegionSize + 1}}

InitVmm ==
    /\ blocks = InitialBlocks
    /\ PaContigSplit = TRUE
    /\ vaStart = 0
    /\ currentLinearAllocEnd = 0
    /\ call = Called("none", "init")
    /\ LockInit
    /\ TrapInit
    /\ ViewInit
    /\ chunks = <<>>
    /\ addressSpace = EmptySpan
    /\ base = EmptySpan
    /\ regions = [r \in {"code", "alias", "heap", "stack", "tlsIo"} |-> EmptySpan]
    /\ released = <<>>
    /\ hostCalls = <<>>
    /\ \E layout \in HostLayouts : maps = MapsText(layout)

DoInitializeVmm ==
    /\ call.op = "none"
    /\ \E type \in {"AddressSpace32Bit", "AddressSpace36Bit", "AddressSpace39Bit"} :
        LET r == InitializeVmm(maps, type)
        IN /\ addressSpace' = r.addressSpace
           /\ base' = r.base
           /\ chunks' = IF r.status = "ok" THEN InitialChunks(r.addressSpace, r.base)
                        ELSE chunks
           /\ call' = Called("InitializeVmm", r.status)
    /\ UNCHANGED <<blocks, PaContigSplit, vaStart, currentLinearAllocEnd, lockVars, trapVars, viewVars,
                   regions, released, maps, hostCalls>>

DoInitializeRegions ==
    /\ call.status \in {"init", "ok"}
    /\ call.op \in {"none", "InitializeVmm"}
    /\ \E codeRegion \in CodeRegions :
        LET r == InitializeRegions(addressSpace, base, codeRegion)
        IN /\ regions' = r.regions
           /\ released' = released \o r.released
           /\ call' = [op |-> "InitializeRegions", status |-> r.status,
                       codeRegion |-> codeRegion]
    /\ UNCHANGED <<blocks, PaContigSplit, vaStart, currentLinearAllocEnd, lockVars, trapVars, viewVars,
                   chunks, addressSpace, base, maps, hostCalls>>

NextVmm ==
    \/ DoInitializeVmm
    \/ DoInitializeRegions

SpecVmm == InitVmm /\ [][NextVmm]_vars

----------------------------------------------------------------------------
(* Claims C18 to C20: the reservation and its regions *)

\* The ranges [a, a + n) and [r[1], r[2]) have an address in common
Overlaps(a, n, r) == a < r[2] /\ r[1] < a + n

\* C18: when the carveout search of InitializeVmm succeeds for a 39-bit
\* address space on a host whose regions are sorted by address, base is at
\* least 1 << 35, is aligned to 2 MiB, ends at or before 1 << 39, and
\* [base, base + baseSize) overlaps no host region, one that starts below
\* 1 << 35 and ends above it included.
\* Violated: a region that starts below 1 << 35 is skipped by
\* if (end < start) continue; without start being moved to its end, so the
\* gap in front of the next region is measured from 1 << 35.
C18_CarveoutFree ==
    (call.op = "InitializeVmm" /\ call.status = "ok") =>
        /\ base.ptr >= CarveoutStart
        /\ base.ptr % RegionAlignment = 0
        /\ base.ptr + base.size <= AddressSpace39Bit
        /\ \A layout \in HostLayouts :
               maps = MapsText(layout) =>
                   \A i \in 1..Len(layout) : ~Overlaps(base.ptr, base.size, layout[i])

\* The named regions in the order InitializeRegions lays them out
RegionOrder == <<"code", "alias", "heap", "stack", "tlsIo">>

\* The size the regions take of the reservation
RegionsSize ==
    regions.code.size + regions.alias.size + regions.heap.size
        + regions.stack.size + regions.tlsIo.size

\* C19: after InitializeRegions has succeeded on a 39-bit reservation, the
\* Code, Alias, Heap, Stack and TLS/IO regions start on 2 MiB boundaries, lie
\* one after the other from the reservation's base on, overlap nowhere, and
\* their sizes add up to no more than the reservation's size.
C19_RegionLayout ==
    (call.op = "InitializeRegions" /\ call.status = "ok"
         /\ addressSpace.size = AddressSpace39Bit) =>
        /\ regions[RegionOrder[1]].ptr = base.ptr
        /\ \A i \in 1..5 : regions[RegionOrder[i]].ptr % RegionAlignment = 0
        /\ \A i \in 1..4 :
               regions[RegionOrder[i + 1]].ptr =
                   regions[RegionOrder[i]].ptr + regions[RegionOrder[i]].size
        /\ \A i, j \in 1..5 :
               i < j => regions[RegionOrder[i]].ptr + regions[RegionOrder[i]].size
                            <= regions[RegionOrder[j]].ptr
        /\ RegionsSize <= base.size

\* InitializeRegions has laid out the regions for a code region whose size is
\* not a multiple of 2 MiB
C19_Witness ==
    /\ call.op = "InitializeRegions"
    /\ call.status = "ok"
    /\ addressSpace.size = AddressSpace39Bit
    /\ call.codeRegion.size % RegionAlignment # 0
    /\ regions.code.size > call.codeRegion.size

\* C20: when the regions need less than the reservation, InitializeRegions
\* releases exactly the rest of the reservation: one munmap request that
\* starts at base + newSize and whose length is base.size - newSize.
\* Violated: the request is munmap(base.end(), newSize - base.size()): it
\* starts at the end of the reservation, and its length is the difference the
\* other way round, which wraps around size_t.
C20_ReleasesTail ==
    (call.op = "InitializeRegions" /\ call.status = "ok"
         /\ addressSpace.size = AddressSpace39Bit /\ RegionsSize < base.size) =>
        released = <<Span(base.ptr + RegionsSize, base.size - RegionsSize)>>

----------------------------------------------------------------------------
(* Mirrors and freed memory: MemoryManager::CreateMirror and FreeMemory.
   The ranges handed to them are in units of 1 KiB, so that a range can start
   or end inside a page; the reservation is converted to the same unit. *)

\* The number of 1 KiB units in one unit of the reservation
KiBPerMiB == 256 * PAGE_SIZE

\* A span of the reservation's unit in units of 1 KiB
InKiB(s) == Span(s.ptr * KiBPerMiB, s.size * KiBPerMiB)

\* util::IsPageAligned, with the precondition dropped
IsPageAligned_Any(value) == TRUE

\* util::IsPageAligned
IsPageAligned(value) == IsAligned(value, PAGE_SIZE)

\* What a call of CreateMirror or FreeMemory leaves: how it ended, the host
\* requests it made and the chunk list
Hosted(status, requests, c) == [status |-> status, requests |-> requests, chunks |-> c]

\* MemoryManager::CreateMirror(mapping); hostOk is whether the host's mmap
\* succeeds
CreateMirror(c, b, mapping, hostOk) ==
    IF mapping.ptr < InKiB(b).ptr
           \/ mapping.ptr + mapping.size > InKiB(b).ptr + InKiB(b).size
    THEN Hosted("outside", <<>>, c)
    ELSE LET offset == mapping.ptr - InKiB(b).ptr
             request == [call |-> "mmap", offset |-> offset, length |-> mapping.size]
         IN IF ~IsPageAligned(offset) \/ ~IsPageAligned(mapping.size)
            THEN Hosted("unaligned", <<>>, c)
            ELSE IF ~hostOk
            THEN Hosted("failed", <<request>>, c)
            ELSE Hosted("ok", <<request>>, c)

\* MemoryManager::FreeMemory with the chunk that covers the reservation put
\* back in place of the list
FreeMemory_Unmaps(c, b, memory, hostOk) ==
    IF memory.ptr < InKiB(b).ptr
           \/ memory.ptr + memory.size > InKiB(b).ptr + InKiB(b).size
    THEN Hosted("outside", <<>>, c)
    ELSE Hosted("ok", <<>>, <<ChunkDescriptor(b.ptr, b.size, "Unmapped", "---", 0)>>)

\* MemoryManager::FreeMemory(memory); hostOk is whether the host's fallocate
\* succeeds
FreeMemory(c, b, memory, hostOk) ==
    IF memory.ptr < InKiB(b).ptr
           \/ memory.ptr + memory.size > InKiB(b).ptr + InKiB(b).size
    THEN Hosted("outside", <<>>, c)
    ELSE LET offset == memory.ptr - InKiB(b).ptr
             request == [call |-> "fallocate", offset |-> offset, length |-> memory.size]
         IN IF ~IsPageAligned(offset) \/ ~IsPageAligned(memory.size)
            THEN Hosted("unaligned", <<>>, c)
            ELSE IF ~hostOk
            THEN Hosted("failed", <<request>>, c)
            ELSE Hosted("ok", <<request>>, c)

\* The most pages of a range handed to CreateMirror or FreeMemory
MirrorPages == 2

\* Runs are followed while the host has been asked at most this often
MaxHostCalls == 2

\* The ranges handed to CreateMirror and FreeMemory: from one page below the
\* reservation to its end, on and off page boundaries, empty to MirrorPages
\* pages long
MirrorSpans ==
    {Span(InKiB(base).ptr + d, size) :
        d \in {0 - PAGE_SIZE, 0, 1, PAGE_SIZE,
               InKiB(base).size - PAGE_SIZE, InKiB(base).size},
        size \in {0, 1} \cup {n * PAGE_SIZE : n \in 1..MirrorPages}}

\* The chunk lists mirrors are made and memory is freed with: the list of
\* InitializeVmm, and that list after a chunk of heap was inserted at the
\* start of the reservation
MirrorChunks ==
    {InitialChunks(addressSpace, base),
     InsertChunk(InitialChunks(addressSpace, base),
                 ChunkDescriptor(base.ptr, 1, "Heap", "RW-", 0)).chunks}

InitMirror ==
    /\ blocks = InitialBlocks
    /\ PaContigSplit = TRUE
    /\ vaStart = 0
    /\ currentLinearAllocEnd = 0
    /\ call = Called("none", "init")
    /\ LockInit
    /\ TrapInit
    /\ ViewInit
    /\ addressSpace = Span(0, AddressSpace39Bit)
    /\ base = Span(CarveoutStart, BaseSize39Bit)
    /\ chunks \in MirrorChunks
    /\ regions = [r \in {"code", "alias", "heap", "stack", "tlsIo"} |-> EmptySpan]
    /\ released = <<>>
    /\ maps = <<>>
    /\ hostCalls = <<>>

DoCreateMirror ==
    /\ Live
    /\ Len(hostCalls) < MaxHostCalls
    /\ \E mapping \in MirrorSpans, hostOk \in BOOLEAN :
        LET r == CreateMirror(chunks, base, mapping, hostOk)
        IN /\ hostCalls' = hostCalls \o r.requests
           /\ chunks' = r.chunks
           /\ call' = [op |-> "CreateMirror", status |-> r.status, memory |-> mapping]
    /\ UNCHANGED <<blocks, PaContigSplit, vaStart, currentLinearAllocEnd, lockVars, trapVars, viewVars,
                   addressSpace, base, regions, released, maps>>

DoFreeMemory ==
    /\ Live
    /\ Len(hostCalls) < MaxHostCalls
    /\ \E memory \in MirrorSpans, hostOk \in BOOLEAN :
        LET r == FreeMemory(chunks, base, memory, hostOk)
        IN /\ hostCalls' = hostCalls \o r.requests
           /\ chunks' = r.chunks
           /\ call' = [op |-> "FreeMemory", status |-> r.status, memory |-> memory]
    /\ UNCHANGED <<blocks, PaContigSplit, vaStart, currentLinearAllocEnd, lockVars, trapVars, viewVars,
                   addressSpace, base, regions, released, maps>>

NextMirror ==
    \/ DoCreateMirror
    \/ DoFreeMemory
    \/ DoInitializeRegions

SpecMirror == InitMirror /\ [][NextMirror]_vars

----------------------------------------------------------------------------
(* Claims C21 and C22: what CreateMirror, FreeMemory and InitializeRegions
   reject, and what FreeMemory leaves alone *)

\* Every unit of the range m lies in the reservation, and its offset from the
\* reservation's base and its size are multiples of the page size
MirrorAcceptable(m) ==
    /\ \A a \in m.ptr..(m.ptr + m.size - 1) :
           base.ptr * KiBPerMiB <= a /\ a < (base.ptr + base.size) * KiBPerMiB
    /\ m.size = 0 =>
           base.ptr * KiBPerMiB <= m.ptr /\ m.ptr <= (base.ptr + base.size) * KiBPerMiB
    /\ (m.ptr - base.ptr * KiBPerMiB) % PAGE_SIZE = 0
    /\ m.size % PAGE_SIZE = 0

\* The size of the 39-bit layout for a code region of the given size
LayoutSize(size) ==
    ((size + RegionAlignment - 1) \div RegionAlignment) * RegionAlignment
        + AliasSize + HeapSize + StackSize + TlsIoSize

\* C21: CreateMirror and FreeMemory end with an error, and ask nothing of the
\* host, for every range that is not entirely inside the reservation or whose
\* offset from the reservation's base or whose size is not a multiple of the
\* page size; InitializeRegions ends with an error, and releases nothing, for
\* a code region that does not start on a 2 MiB boundary and for a layout
\* larger than the reservation.
C21_RejectsBeforeHost ==
    [][/\ (call'.op \in {"CreateMirror", "FreeMemory"}
              /\ ~MirrorAcceptable(call'.memory)) =>
           /\ call'.status \in {"outside", "unaligned"}
           /\ hostCalls' = hostCalls
       /\ (call'.op = "InitializeRegions" /\ addressSpace.size = AddressSpace39Bit
              /\ \/ call'.codeRegion.ptr % RegionAlignment # 0
                 \/ LayoutSize(call'.codeRegion.size) > base.size) =>
           /\ call'.status \in {"nonaligned", "exceeded"}
           /\ released' = released
           /\ hostCalls' = hostCalls]_vars

\* FreeMemory has rejected a range that is inside the reservation but not on
\* page boundaries, after the host had been asked for an earlier range
C21_Witness ==
    /\ call.op = "FreeMemory"
    /\ call.status = "unaligned"
    /\ call.memory.size > 0
    /\ hostCalls # <<>>

\* C22: FreeMemory leaves the chunk list as it is: Get returns for every
\* pointer the descriptor it returned before the call.
C22_FreeMemoryKeepsChunks ==
    [][call'.op = "FreeMemory" =>
           /\ chunks' = chunks
           /\ \A p \in Probes : Get(chunks', p) = Get(chunks, p)]_vars

\* FreeMemory has punched a hole into the backing of a reservation that holds
\* a chunk of heap
C22_Witness ==
    /\ call.op = "FreeMemory"
    /\ call.status = "ok"
    /\ call.memory.size > 0
    /\ \E i \in 1..Len(chunks) : chunks[i].state = "Heap"
    /\ hostCalls[Len(hostCalls)] =
           [call |-> "fallocate", offset |-> call.memory.ptr - base.ptr * KiBPerMiB,
            length |-> call.memory.size]

----------------------------------------------------------------------------
(* The trap manager: nce::NCE::TrapRegions, RetrapRegions, RemoveTrap,
   DeleteTrap and TrapHandler.  Addresses are in units of 1 KiB from the first
   trapped page.  A step of the model is one critical section of trapMutex or
   one callback. *)

\* Everything but the state of the traps
trapFrame == <<blocks, PaContigSplit, vaStart, currentLinearAllocEnd, call, lockVars,
               kernelVars, viewVars>>

Max2(a, b) == IF a > b THEN a ELSE b

Min2(a, b) == IF a < b THEN a ELSE b

\* The page an address lies in
PageOf(address) == address \div PAGE_SIZE

\* The pages that the interval [i[1], i[2]), aligned to pages, takes up
AlignedPages(i) == PageOf(i[1])..PageOf(i[2] - 1)

\* The pages that the intervals of a handle's entry take up
EntryPages(entry) == UNION {AlignedPages(i) : i \in entry.intervals}

\* The handles with an interval on the page, whatever the page
Matching_All(map, page) == {h \in TrapHandles : map[h].registered}

\* The handles with an interval on the page
Matching(map, page) ==
    {h \in TrapHandles : map[h].registered /\ page \in EntryPages(map[h])}

RECURSIVE MaxProtection(_, _)
\* The highest protection of the entries of the handles hs
MaxProtection(map, hs) ==
    IF hs = {} THEN None
    ELSE LET h == CHOOSE x \in hs : TRUE
         IN Max2(map[h].protection, MaxProtection(map, hs \ {h}))

\* NCE::ReprotectIntervals with the supplied protection applied as it is
ReprotectIntervals_Supplied(map, prot, pages, protection) ==
    [p \in DOMAIN prot |-> IF p \in pages THEN protection ELSE prot[p]]

\* NCE::ReprotectIntervals: every page of the intervals gets the supplied
\* protection or that of an entry on the page, whichever is higher
ReprotectIntervals(map, prot, pages, protection) ==
    [p \in DOMAIN prot |->
        IF p \in pages
        THEN Max2(protection, MaxProtection(map, Matching(map, p)))
        ELSE prot[p]]

\* What a call leaves of the trap map and of the pages' protection
Trapped(map, prot) == [map |-> map, prot |-> prot]

\* NCE::TrapRegions(regions, writeOnly, readCallback, writeCallback) -> handle
TrapRegions(map, prot, handle, intervals, writeOnly) ==
    LET protection == IF writeOnly THEN WriteOnly ELSE ReadWrite
        entry == [registered |-> TRUE, intervals |-> intervals, protection |-> protection]
        map2 == [map EXCEPT ![handle] = entry]
    IN Trapped(map2, ReprotectIntervals(map2, prot, EntryPages(entry), protection))

\* NCE::RetrapRegions(handle, writeOnly)
RetrapRegions(map, prot, handle, writeOnly) ==
    LET protection == IF writeOnly THEN WriteOnly ELSE ReadWrite
        map2 == [map EXCEPT ![handle].protection = protection]
    IN Trapped(map2, ReprotectIntervals(map2, prot, EntryPages(map[handle]), protection))

\* NCE::RemoveTrap(handle)
RemoveTrap(map, prot, handle) ==
    LET map2 == [map EXCEPT ![handle].protection = None]
    IN Trapped(map2, ReprotectIntervals(map2, prot, EntryPages(map[handle]), None))

\* DeleteTrap that lifts the protection of every page
DeleteTrap_LiftsAll(map, prot, handle) ==
    Trapped([map EXCEPT ![handle] = NoEntry], [p \in DOMAIN prot |-> None])

\* NCE::DeleteTrap(handle)
DeleteTrap(map, prot, handle) ==
    LET map2 == [map EXCEPT ![handle] = NoEntry]
    IN Trapped(map2, ReprotectIntervals(map2, prot, EntryPages(map[handle]), None))

\* The callback of an entry that a fault calls, with the kind of access
\* left out
CallbackKind_Read(write) == "readCallback"

\* The callback of an entry that a fault calls
CallbackKind(write) == IF write THEN "writeCallback" ELSE "readCallback"

\* The protection that lets an access of the kind through
Admits(protection, write) == IF write THEN protection = None ELSE protection < ReadWrite

\* The end of NCE::TrapHandler with the protection of the pages lifted and
\* the entries left as they are
Lift_Stale(map, prot, snapshot, write) ==
    LET pages == UNION {EntryPages(map[h]) : h \in snapshot}
    IN Trapped(map, ReprotectIntervals_Supplied(map, prot, pages,
                                                IF write THEN None ELSE WriteOnly))

\* The end of NCE::TrapHandler: the entries that were called need no more
\* than lets the access through, and their pages are reprotected
Lift(map, prot, snapshot, write) ==
    LET lifted == IF write THEN None ELSE WriteOnly
        map2 == [h \in TrapHandles |->
                    IF h \in snapshot /\ map[h].registered
                    THEN [map[h] EXCEPT !.protection = Min2(@, lifted)]
                    ELSE map[h]]
        pages == UNION {EntryPages(map2[h]) : h \in snapshot}
    IN Trapped(map2, ReprotectIntervals(map2, prot, pages, None))

\* The intervals that are trapped: the start of the first page, the end of
\* the first page with the start of the second, and every page but the first
TrapIntervals ==
    {<<0, 1>>, <<PAGE_SIZE - 1, PAGE_SIZE + 1>>}
        \cup {<<p * PAGE_SIZE, (p + 1) * PAGE_SIZE>> : p \in 1..(TrapPages - 1)}

\* The address of a page that is never trapped and never accessible
Foreign == TrapPages * PAGE_SIZE

\* The addresses that are accessed: the last of every page, which only the
\* intervals across the end of the page hold, and the foreign one
FaultAddresses ==
    {p * PAGE_SIZE + PAGE_SIZE - 1 : p \in 0..(TrapPages - 1)} \cup {Foreign}

\* The host raises a protection fault for the access
Faults(prot, address, write) ==
    IF address = Foreign THEN TRUE ELSE ~Admits(prot[PageOf(address)], write)

\* The fault record after a call: a fault that has been handled or forwarded
\* is forgotten, one whose callbacks run is kept
Settled(f) == IF f.phase = "idle" THEN NoFault ELSE f

\* A new handle is the lowest one that is free
DoTrapRegions ==
    /\ \E handle \in TrapHandles, interval \in TrapIntervals, writeOnly \in BOOLEAN :
        /\ ~trapMap[handle].registered
        /\ \A lower \in 1..(handle - 1) : trapMap[lower].registered
        /\ LET r == TrapRegions(trapMap, pageProt, handle, {interval}, writeOnly)
           IN /\ trapMap' = r.map
              /\ pageProt' = r.prot
    /\ fault' = Settled(fault)
    /\ UNCHANGED trapFrame

DoRetrapRegions ==
    /\ \E handle \in TrapHandles, writeOnly \in BOOLEAN :
        /\ trapMap[handle].registered
        /\ LET r == RetrapRegions(trapMap, pageProt, handle, writeOnly)
           IN /\ trapMap' = r.map
              /\ pageProt' = r.prot
              /\ fault' = IF fault.phase = "callbacks" /\ handle \in fault.snapshot
                          THEN [fault EXCEPT !.raced = @ \cup {handle}]
                          ELSE Settled(fault)
    /\ UNCHANGED trapFrame

DoRemoveTrap ==
    /\ \E handle \in TrapHandles :
        /\ trapMap[handle].registered
        /\ LET r == RemoveTrap(trapMap, pageProt, handle)
           IN /\ trapMap' = r.map
              /\ pageProt' = r.prot
    /\ fault' = Settled(fault)
    /\ UNCHANGED trapFrame

DoDeleteTrap ==
    /\ \E handle \in TrapHandles :
        /\ trapMap[handle].registered
        /\ LET r == DeleteTrap(trapMap, pageProt, handle)
           IN /\ trapMap' = r.map
              /\ pageProt' = r.prot
    /\ fault' = Settled(fault)
    /\ UNCHANGED trapFrame

\* NCE::TrapHandler(address, write), up to the callbacks: the entries on the
\* page of the address are looked up; with none the fault is not handled
TrapHandlerBegin ==
    /\ fault.phase = "idle"
    /\ \E address \in FaultAddresses, write \in BOOLEAN :
        /\ Faults(pageProt, address, write)
        /\ LET snapshot == IF address = Foreign THEN Matching(trapMap, TrapPages)
                           ELSE Matching(trapMap, PageOf(address))
           IN fault' = [phase |-> IF snapshot = {} THEN "idle" ELSE "callbacks",
                        handled |-> IF snapshot = {} THEN "false" ELSE "none",
                        address |-> address, write |-> write, snapshot |-> snapshot,
                        called |-> {}, raced |-> {}]
    /\ UNCHANGED <<trapMap, pageProt, trapFrame>>

\* NCE::TrapHandler calls the callback of one of the entries
TrapHandlerCallback ==
    /\ fault.phase = "callbacks"
    /\ \E h \in fault.snapshot :
        /\ \A c \in fault.called : c[1] # h
        /\ fault' = [fault EXCEPT !.called = @ \cup {<<h, CallbackKind(fault.write)>>}]
    /\ UNCHANGED <<trapMap, pageProt, trapFrame>>

\* NCE::TrapHandler after the callbacks: the protection is lifted and the
\* fault is handled
TrapHandlerEnd ==
    /\ fault.phase = "callbacks"
    /\ {c[1] : c \in fault.called} = fault.snapshot
    /\ LET r == Lift(trapMap, pageProt, fault.snapshot, fault.write)
       IN /\ trapMap' = r.map
          /\ pageProt' = r.prot
    /\ fault' = [fault EXCEPT !.phase = "idle", !.handled = "true", !.snapshot = {}]
    /\ UNCHANGED trapFrame

\* The calls of the trap manager, each a critical section
TrapCalls ==
    \/ DoTrapRegions
    \/ DoRetrapRegions
    \/ DoRemoveTrap
    \/ DoDeleteTrap

\* One thread: a fault is handled from its start to its end before the next
\* call is made
NextTrap ==
    \/ fault.phase = "idle" /\ TrapCalls
    \/ TrapHandlerBegin
    \/ TrapHandlerCallback
    \/ TrapHandlerEnd

\* Two threads: RetrapRegions is also called while the callbacks of a fault
\* run
NextTrapRace ==
    \/ fault.phase = "idle" /\ TrapCalls
    \/ DoRetrapRegions
    \/ TrapHandlerBegin
    \/ TrapHandlerCallback
    \/ TrapHandlerEnd

SpecTrap == InitMM /\ [][NextTrap]_vars

SpecTrapRace == InitMM /\ [][NextTrapRace]_vars

----------------------------------------------------------------------------
(* Claims C23 to C26: the protection of trapped pages and the handling of
   protection faults *)

\* The handles with an interval that has an address on the page
Covering(map, page) ==
    {h \in TrapHandles :
        /\ map[h].registered
        /\ \E i \in map[h].intervals :
               i[1] < (page + 1) * PAGE_SIZE /\ i[2] > page * PAGE_SIZE}

\* The highest protection that an interval on the page requires
Required(map, page) ==
    IF \E h \in Covering(map, page) : map[h].protection = ReadWrite THEN ReadWrite
    ELSE IF \E h \in Covering(map, page) : map[h].protection = WriteOnly THEN WriteOnly
    ELSE None

\* C23: in every state reached by calls of TrapRegions, RetrapRegions,
\* RemoveTrap and DeleteTrap and by handled faults, the protection applied to
\* each page is the highest one (None < WriteOnly < ReadWrite) that an
\* interval on the page requires; a page with a WriteOnly and a ReadWrite
\* interval is protected against reads and writes, and against writes only
\* once the ReadWrite interval is deleted.
C23_PageProtection ==
    \A p \in DOMAIN pageProt : pageProt[p] = Required(trapMap, p)

\* A page holds a WriteOnly and a ReadWrite interval of two handles and is
\* protected against reads and writes
C23_Witness ==
    \E p \in DOMAIN pageProt :
        /\ \E h \in Covering(trapMap, p) : trapMap[h].protection = WriteOnly
        /\ \E h \in Covering(trapMap, p) : trapMap[h].protection = ReadWrite
        /\ pageProt[p] = ReadWrite

\* The step is a call of RetrapRegions
IsRetrapStep ==
    \E h \in TrapHandles, writeOnly \in BOOLEAN :
        /\ trapMap[h].registered
        /\ trapMap' = RetrapRegions(trapMap, pageProt, h, writeOnly).map
        /\ pageProt' = RetrapRegions(trapMap, pageProt, h, writeOnly).prot
        /\ fault' \in {Settled(fault), [fault EXCEPT !.raced = @ \cup {h}]}

\* The step is a call of TrapRegions
IsTrapStep ==
    \E h \in TrapHandles, interval \in TrapIntervals, writeOnly \in BOOLEAN :
        /\ ~trapMap[h].registered
        /\ trapMap' = TrapRegions(trapMap, pageProt, h, {interval}, writeOnly).map
        /\ pageProt' = TrapRegions(trapMap, pageProt, h, {interval}, writeOnly).prot
        /\ fault' = Settled(fault)

\* What TrapHandler does for a fault on a page that holds intervals: it takes
\* every interval on the page, calls the read callback of each for a read and
\* the write callback of each for a write, leaves the protection alone while
\* it calls them, and then lifts it so that the access goes through
HandlerCallsThenLifts ==
    /\ (fault.phase = "idle" /\ fault'.phase = "callbacks") =>
           fault'.snapshot = Covering(trapMap, PageOf(fault'.address))
    /\ (fault.phase = "callbacks" /\ fault'.phase = "callbacks") =>
           pageProt' = pageProt
    /\ (fault.phase = "callbacks" /\ fault'.phase = "idle") =>
           /\ fault.called =
                  {<<h, IF fault.write THEN "writeCallback" ELSE "readCallback">> :
                      h \in fault.snapshot}
           /\ fault'.handled = "true"
           /\ Admits(pageProt'[PageOf(fault.address)], fault.write)

C26_RetrapNotLost ==
    [][/\ \A h \in fault'.raced \ fault.raced :
              /\ fault.phase = "callbacks"
              /\ trapMap'[h].protection \in {WriteOnly, ReadWrite}
              /\ \A p \in EntryPages(trapMap'[h]) : pageProt'[p] >= trapMap'[h].protection
       /\ (fault.phase = "callbacks" /\ fault'.phase = "idle") =>
              \A h \in fault.raced :
                  /\ trapMap'[h].protection <= (IF fault.write THEN None ELSE WriteOnly)
                  /\ Admits(pageProt'[PageOf(fault.address)], fault.write)
       /\ \A p \in DOMAIN pageProt : pageProt'[p] = Required(trapMap', p)]_vars

\* The handler has ended a fault during whose callbacks its handle was
\* retrapped
C26_Witness ==
    /\ fault.phase = "idle"
    /\ fault.handled = "true"
    /\ fault.raced # {}

----------------------------------------------------------------------------
(* gpu::TextureView::lock, try_lock and unlock.  A step is one statement of
   the loop: the atomic load, the lock of the backing, the second load with
   the comparison, the unlock before the retry. *)

\* Everything but the state of the view
viewFrame == <<blocks, PaContigSplit, vaStart, currentLinearAllocEnd, call, lockVars,
               kernelVars, trapVars>>

\* The Textures whose lock the thread holds
Held(mutexes, t) == {m \in Textures : mutexes[m] = t}

\* backing->unlock() before the retry, left out
Retry_KeepLock(mutexes, at) == mutexes

\* if (success) backing->unlock(), before the loop is entered again with the
\* latest backing
Retry(mutexes, at) ==
    IF at.success THEN [mutexes EXCEPT ![at.backing] = 0] ELSE mutexes

\* auto backing{std::atomic_load(&texture)} of lock and of try_lock
ViewCall(t) ==
    /\ viewPc[t].at = "idle"
    /\ \E op \in {"lock", "try_lock"} :
        viewPc' = [viewPc EXCEPT ![t] = [at |-> "loaded", op |-> op, backing |-> texture,
                                         latest |-> 0, success |-> FALSE]]
    /\ UNCHANGED <<texture, textureMutex, viewFrame>>

\* backing->lock(), which waits for the lock, and backing->try_lock(), which
\* does not
BackingLock(t) ==
    /\ viewPc[t].at = "loaded"
    /\ IF textureMutex[viewPc[t].backing] = 0
       THEN /\ textureMutex' = [textureMutex EXCEPT ![viewPc[t].backing] = t]
            /\ viewPc' = [viewPc EXCEPT ![t].at = "acquired", ![t].success = TRUE]
       ELSE /\ viewPc[t].op = "try_lock"
            /\ textureMutex' = textureMutex
            /\ viewPc' = [viewPc EXCEPT ![t].at = "acquired", ![t].success = FALSE]
    /\ UNCHANGED <<texture, viewFrame>>

\* auto latestBacking{std::atomic_load(&texture)}; if (backing == latestBacking)
\* return: lock returns, try_lock returns success
LatestCheck(t) ==
    /\ viewPc[t].at = "acquired"
    /\ viewPc' = [viewPc EXCEPT
                     ![t].latest = texture,
                     ![t].at = IF viewPc[t].backing # texture THEN "stale"
                               ELSE IF viewPc[t].success THEN "returned"
                               ELSE "idle"]
    /\ UNCHANGED <<texture, textureMutex, viewFrame>>

\* backing->unlock(); backing = latestBacking; and the loop is entered again
RetryWithLatest(t) ==
    /\ viewPc[t].at = "stale"
    /\ textureMutex' = Retry(textureMutex, viewPc[t])
    /\ viewPc' = [viewPc EXCEPT ![t].at = "loaded", ![t].backing = viewPc[t].latest,
                                ![t].success = FALSE]
    /\ UNCHANGED <<texture, viewFrame>>

\* TextureView::unlock: texture->unlock().  Unlocking a Texture that the
\* thread does not hold is undefined: the lock is released all the same, or
\* it is not.
ViewUnlock(t) ==
    /\ viewPc[t].at = "returned"
    /\ IF textureMutex[texture] = t
       THEN /\ textureMutex' = [textureMutex EXCEPT ![texture] = 0]
            /\ viewPc' = [viewPc EXCEPT ![t] = ViewIdle]
       ELSE /\ \E unlocked \in BOOLEAN :
                textureMutex' = IF unlocked THEN [textureMutex EXCEPT ![texture] = 0]
                                ELSE textureMutex
            /\ viewPc' = [viewPc EXCEPT ![t].at = "ub"]
    /\ UNCHANGED <<texture, viewFrame>>

\* The view's backing is replaced by another Texture.  The thread that
\* replaces it holds the lock of the Texture it replaces for as long as that
\* takes.
ReplaceBacking ==
    /\ textureMutex[texture] = 0
    /\ \E m \in Textures \ {texture} : texture' = m
    /\ UNCHANGED <<textureMutex, viewPc, viewFrame>>

NextView ==
    \/ \E t \in Threads :
        \/ ViewCall(t)
        \/ BackingLock(t)
        \/ LatestCheck(t)
        \/ RetryWithLatest(t)
        \/ ViewUnlock(t)
    \/ ReplaceBacking

SpecView == InitMM /\ [][NextView]_vars

----------------------------------------------------------------------------
(* Claim C27: what a thread holds when TextureView::lock returns *)

----------------------------------------------------------------------------
(* Claim C28: the frame of Map and Unmap and the tail Block of a split *)

\* The addresses of the space that lie outside [virt, virt + size)
OutsideRange(virt, size) == (0..(vaLimit - 1)) \ Range(virt, size)

\* The range end e falls strictly inside a Block
SplitAt(b, e) == e < vaLimit /\ b[Predecessor(b, e)].virt < e

\* The tail Block a split at e is to leave
TailOf(b, e) ==
    LET original == b[Predecessor(b, e)]
    IN Block(e,
             IF PaContigSplit /\ Mapped(original)
             THEN original.phys + (e - original.virt)
             ELSE original.phys,
             original.extraInfo)

HasBlock(b, blk) == \E i \in 1..Len(b) : b[i] = blk

\* Every address outside the range resolves as it did before the call
FrameKept(r, virt, size) ==
    r.status # "ub" =>
        \A a \in OutsideRange(virt, size) : Resolve(r.blocks, a) = Resolve(blocks, a)

----------------------------------------------------------------------------
(* Claims C29 and C30: FlatMemoryManager::Copy *)

\* The destination and source of the Copy call that has been made
CopyDst == call.virt[1]

CopySrc == call.virt[2]

\* The host address of the byte at address a
HostOf(a) == Resolve(blocks, a)[1]

\* The bytes from address a to the end of its Block
RunLeft(a) == blocks[UpperBound(blocks, a)].virt - a

RECURSIVE ExpectedSteps(_)
\* The steps <<destination host address, source host address, bytes>> of a
\* copy that has transferred k bytes and moves, per step, the least of the
\* rest of the source Block, the rest of the destination Block and the rest of
\* the request
ExpectedSteps(k) ==
    IF k >= call.size THEN <<>>
    ELSE LET rests == {RunLeft(CopySrc + k), RunLeft(CopyDst + k), call.size - k}
             n == CHOOSE m \in rests : \A other \in rests : m <= other
         IN << <<HostOf(CopyDst + k), HostOf(CopySrc + k), n>> >> \o ExpectedSteps(k + n)

\* No memcpy of the copy is handed overlapping ranges
StepsDisjoint ==
    \A i \in 1..Len(ExpectedSteps(0)) :
        LET step == ExpectedSteps(0)[i]
        IN \A d \in step[1]..(step[1] + step[3] - 1), s \in step[2]..(step[2] + step[3] - 1) :
               d # s

\* The access callbacks of the steps: the destination span, then the source
\* span
StepCallbacks(steps) ==
    [i \in 1..(2 * Len(steps)) |->
        <<steps[(i + 1) \div 2][IF i % 2 = 1 THEN 1 ELSE 2], steps[(i + 1) \div 2][3]>>]

RECURSIVE Store(_, _, _)
\* Host memory after the byte transfers from the i-th on; mem maps a host
\* address to the byte it holds
Store(mem, written, i) ==
    IF i > Len(written) THEN mem
    ELSE Store([mem EXCEPT ![written[i][1]] =
                   IF written[i][2] = ZeroByte THEN ZeroByte ELSE mem[written[i][2]]],
               written, i + 1)

\* Host memory before the copy: every byte holds a value of its own, named by
\* its address
HostSpace == 0..(20 + vaLimit + 2)

Memory == [h \in HostSpace |-> h]

\* The 2 * size bytes of the two ranges are 2 * size different bytes of memory
RangesApart ==
    \A i, j \in 0..(call.size - 1) :
        /\ HostOf(CopyDst + i) # HostOf(CopySrc + j)
        /\ i # j => HostOf(CopyDst + i) # HostOf(CopyDst + j)

CopiesPlain ==
    /\ call.op = "Copy"
    /\ call.size > 0
    /\ \A a \in Range(CopySrc, call.size) \cup Range(CopyDst, call.size) :
           BackedPlain(blocks, a)

CopiesBacked ==
    /\ call.op = "Copy"
    /\ call.size > 0
    /\ \A a \in Range(CopySrc, call.size) \cup Range(CopyDst, call.size) :
           Resolve(blocks, a)[1] # UnmappedPa

\* C30: Copy treats sparse Blocks as Read and Write do: a byte copied from a
\* sparse source Block arrives as zero, and a byte whose destination lies in a
\* sparse Block is discarded, so that no transfer of the Copy stores through
\* the backing of a sparse destination Block.
\* Violated: Copy looks at the sparse flag of the source Block only (lines
\* 387-403) and stores into the destination whatever its Block is.
C30_CopySparse ==
    CopiesBacked =>
        /\ call.result.status = "ok"
        /\ \A i \in 1..Len(call.result.written) :
               BackedSparse(blocks, CopySrc + i - 1) =>
                   call.result.written[i][2] = ZeroByte
        /\ \A i \in 0..(call.size - 1) :
               BackedSparse(blocks, CopyDst + i) =>
                   \A j \in 1..Len(call.result.written) :
                       call.result.written[j][1] # HostOf(CopyDst + i)

----------------------------------------------------------------------------
(* FlatAllocator under its lock.  SpecAllocLock follows threads that call   *)
(* Allocate, AllocateFixed and Free on one allocator.  An Allocate is two  *)
(* steps inside its scoped_lock, the search for allocStart and the         *)
(* MapLocked call, so that another thread could step in between if the     *)
(* lock let it.                                                            *)

\* FlatAllocator::Allocate up to its MapLocked call: the linear attempt and
\* the gap search.  status is "found" with allocStart and the cursor to
\* store, "full" for return {}, "invalid" and "state" for the exceptions.
Search(b, cursor, size) ==
    LET linear == LinearAlloc(b, cursor, size)
        searchSuccessor == GapSearch(b, 1, 2, size)
    IN IF linear.status # "ok"
       THEN [status |-> linear.status, allocStart |-> UnmappedVa, cursor |-> cursor]
       ELSE IF linear.allocStart # UnmappedVa
       THEN [status |-> "found", allocStart |-> linear.allocStart,
             cursor |-> (linear.allocStart + size) % VaModulus]
       ELSE IF Len(b) <= 2
       THEN [status |-> "state", allocStart |-> UnmappedVa, cursor |-> cursor]
       ELSE IF searchSuccessor # Len(b) + 1
       THEN [status |-> "found", allocStart |-> b[searchSuccessor - 1].virt, cursor |-> cursor]
       ELSE [status |-> "full", allocStart |-> UnmappedVa, cursor |-> cursor]

\* Thread t is between the search of its Allocate and the MapLocked call
AtMap(t) == pc[t][1] = "map"

\* The ranges of allocated that [virt, virt + size) leaves untouched
Kept(ranges, virt, size) ==
    {a \in ranges : Range(a[1], a[2]) \cap Range(virt, size) = {}}

allocFrame == <<PaContigSplit, vaStart, kernelVars, trapVars, viewVars>>

\* Thread t calls Allocate, AllocateFixed or Free and reaches the scoped_lock
AllocatorCall(t) ==
    /\ pc[t] = Idle
    /\ \E op \in {"Allocate", "AllocateFixed", "Free"} :
           pc' = [pc EXCEPT ![t] = <<"lock", op>>]
    /\ UNCHANGED <<blocks, currentLinearAllocEnd, call, blockMutex, allocated, allocFrame>>

\* Allocate from its first statement to the one before MapLocked; the calls
\* that throw or find the space full return here and unlock
AllocateSearch(t) ==
    /\ Live
    /\ pc[t] = <<"in", "Allocate">>
    /\ \E size \in VaType :
           LET s == Search(blocks, currentLinearAllocEnd, size)
           IN /\ currentLinearAllocEnd' = s.cursor
              /\ IF s.status = "found"
                 THEN /\ pc' = [pc EXCEPT ![t] = <<"map", "Allocate", s.allocStart, size>>]
                      /\ UNCHANGED <<call, blockMutex>>
                 ELSE /\ pc' = [pc EXCEPT ![t] = Idle]
                      /\ blockMutex' = blockMutex \ {t}
                      /\ call' = Called("Allocate", IF s.status = "full" THEN "ok" ELSE s.status)
    /\ UNCHANGED <<blocks, allocated, allocFrame>>

\* this->MapLocked(allocStart, true, size, {}); return allocStart;
AllocateMap(t) ==
    /\ AtMap(t)
    /\ LET r == MapLocked(blocks, pc[t][3], AllocPa, pc[t][4], FALSE)
       IN /\ Len(r.blocks) <= MaxBlocks
          /\ blocks' = r.blocks
          /\ call' = Called("Allocate", r.status)
          /\ allocated' = IF r.status = "ok" /\ pc[t][4] > 0
                          THEN allocated \cup {<<pc[t][3], pc[t][4]>>}
                          ELSE allocated
    /\ pc' = [pc EXCEPT ![t] = Idle]
    /\ blockMutex' = blockMutex \ {t}
    /\ UNCHANGED <<currentLinearAllocEnd, allocFrame>>

\* AllocateFixed: Map(virt, true, size), inside the lock that Map takes
AllocateFixedLocked(t) ==
    /\ Live
    /\ pc[t] = <<"in", "AllocateFixed">>
    /\ \E virt \in VaType, size \in VaType :
           /\ Inside(virt, size)
           /\ LET r == MapLocked(blocks, virt, AllocPa, size, FALSE)
              IN /\ Len(r.blocks) <= MaxBlocks
                 /\ blocks' = r.blocks
                 /\ call' = Called("AllocateFixed", r.status)
    /\ pc' = [pc EXCEPT ![t] = Idle]
    /\ blockMutex' = blockMutex \ {t}
    /\ UNCHANGED <<currentLinearAllocEnd, allocated, allocFrame>>

\* Free: Unmap(virt, size), inside the lock that Unmap takes
FreeLocked(t) ==
    /\ Live
    /\ pc[t] = <<"in", "Free">>
    /\ \E virt \in VaType, size \in VaType :
           /\ Inside(virt, size)
           /\ LET r == UnmapLocked(blocks, virt, size)
              IN /\ Len(r.blocks) <= MaxBlocks
                 /\ blocks' = r.blocks
                 /\ call' = Called("Free", r.status)
                 /\ allocated' = Kept(allocated, virt, size)
    /\ pc' = [pc EXCEPT ![t] = Idle]
    /\ blockMutex' = blockMutex \ {t}
    /\ UNCHANGED <<currentLinearAllocEnd, allocFrame>>

NextAllocLock ==
    \E t \in Threads :
        \/ AllocatorCall(t)
        \/ Acquire(t)
        \/ AllocateSearch(t)
        \/ AllocateMap(t)
        \/ AllocateFixedLocked(t)
        \/ FreeLocked(t)

SpecAllocLock == InitAlloc /\ [][NextAllocLock]_vars

\* No two ranges that Allocate returned, and that were not freed since, share
\* an address
AllocatedDisjoint ==
    \A a, c \in allocated : a # c => Range(a[1], a[2]) \cap Range(c[1], c[2]) = {}

\* While a thread is inside Allocate, the Block sequence and the cursor change
\* in that thread's own steps only
AllocateAlone ==
    \A t \in Threads :
        ((InsideOp(t) \/ AtMap(t)) /\ pc[t][2] = "Allocate"
            /\ (blocks' # blocks \/ currentLinearAllocEnd' # currentLinearAllocEnd))
            => pc'[t] # pc[t]

\* C31: Allocate runs its search and the Map of what it found as one critical
\* section of the map's lock: while a thread is inside Allocate no other
\* thread's Allocate, AllocateFixed or Free changes the map, and the ranges
\* that Allocate calls of different threads return are pairwise disjoint.
\* Violated in its second half: on a map that holds fixed mappings the skip
\* loop of the linear path takes the start of a Block that an earlier Allocate
\* mapped (C9), and the later Allocate returns a range that contains the
\* earlier one.  The calls are never interleaved.
C31_AllocateAtomic == [][AllocateAlone /\ AllocatedDisjoint']_vars

----------------------------------------------------------------------------
(* Claims C32 and later: the allocator's cursor, page protection, the space *)
(* origin, the sentinel, the chunk list, Allocate's results, wrapping ends, *)
(* the unmap callback and partial transfers                                *)

\* The step is an Allocate that placed its range on the linear path and
\* stored the end of that range in the cursor
LinearStep ==
    /\ call'.op = "Allocate"
    /\ \E size \in VaType :
           LET linear == LinearAlloc(blocks, currentLinearAllocEnd, size)
           IN /\ linear.status = "ok"
              /\ linear.allocStart # UnmappedVa
              /\ currentLinearAllocEnd' = (linear.allocStart + size) % VaModulus

\* C32: over every sequence of Allocate, AllocateFixed and Free calls the
\* cursor currentLinearAllocEnd never decreases, stays within
\* [vaStart, vaLimit], and changes only in an Allocate that places its range
\* on the linear path.
\* Violated: when the skip loop of the linear path stops at a Block because
\* the space up to the next Block is too small or the Block is mapped, Allocate
\* stores that Block's start + size in the cursor without comparing it with
\* vaLimit, and the MapLocked call that follows throws.
C32_CursorMonotone ==
    [][/\ currentLinearAllocEnd' >= currentLinearAllocEnd
       /\ vaStart <= currentLinearAllocEnd'
       /\ currentLinearAllocEnd' <= vaLimit
       /\ currentLinearAllocEnd' # currentLinearAllocEnd => LinearStep]_vars

\* The step is one of TrapRegions, RetrapRegions, RemoveTrap and DeleteTrap:
\* it is no step of TrapHandler, which moves the fault on
IsTrapCall ==
    fault' \in {Settled(fault)} \cup {[fault EXCEPT !.raced = @ \cup {h}] : h \in TrapHandles}

\* C33: a call of TrapRegions, RetrapRegions, RemoveTrap or DeleteTrap changes
\* the entry of one handle only, and the protection of a page changes in it
\* only if an interval of that handle lies on the page.
C33_OtherPagesKept ==
    [][(IsTrapCall /\ <<trapMap, pageProt>>' # <<trapMap, pageProt>>) =>
           \E h \in TrapHandles :
               /\ trapMap'[h] # trapMap[h]
               /\ \A g \in TrapHandles \ {h} : trapMap'[g] = trapMap[g]
               /\ \A p \in DOMAIN pageProt :
                      pageProt'[p] # pageProt[p] =>
                          p \in EntryPages(trapMap[h]) \cup EntryPages(trapMap'[h])]_vars

\* The first handle has been deleted while the second one keeps a page
\* protected
C33_Witness ==
    /\ fault.phase = "idle"
    /\ ~trapMap[1].registered
    /\ trapMap[2].registered
    /\ \E p \in EntryPages(trapMap[2]) : pageProt[p] # None

\* The Blocks of b that start at the space origin
AtOrigin(b) == {i \in 1..Len(b) : b[i].virt = 0}

\* The call ended without walking off the front of the vector and, when it
\* returned, left no second Block at the origin
OriginKept(r) ==
    /\ r.status # "ub"
    /\ r.status = "ok" => Cardinality(AtOrigin(r.blocks)) <= 1

\* C34: on every reachable Block sequence, Map and Unmap of a range that
\* starts at the space origin (virt = 0, size > 0, virt + size <= vaLimit)
\* complete without their backward walk stepping to a position before the first
\* Block, and leave at most one Block that starts at address 0.
\* Violated: Map(0, p, n) on the fresh map inserts a second Block at 0 behind
\* the initial one, and on other sequences the walk
\* 'while (std::prev(blockStartSuccessor)->virt >= virt)' cannot stop at the
\* first Block, whose start is >= 0, and reads the position before it.
C34_OriginCalls ==
    Live =>
        \A size \in VaType :
            Inside(0, size) =>
                /\ OriginKept(UnmapLocked(blocks, 0, size))
                /\ \A in \in MapInputs : OriginKept(MapLocked(blocks, 0, in[1], size, in[2]))

\* The range [virt, virt + size) reaches the terminating sentinel Block
ReachesSentinel(virt, size) == size > 0 /\ virt + size > blocks[Len(blocks)].virt

\* C35: Read, Write, Copy and TranslateRange on a range that begins inside, or
\* extends into, the terminating sentinel Block never read a Block position
\* past the end of the sequence: they end with a page fault or a result after
\* using existing Blocks only.
\* Violated: for an address in the sentinel Block std::upper_bound returns
\* blocks.end(), and every accessor reads successor->virt there to compute the
\* size of its first step, before it looks at the Block's backing.
C35_SentinelAccess ==
    (/\ call.status = "accessed"
     /\ IF call.op = "Copy"
        THEN ReachesSentinel(call.virt[1], call.size) \/ ReachesSentinel(call.virt[2], call.size)
        ELSE ReachesSentinel(call.virt, call.size)) =>
        call.result.status # "ub"

----------------------------------------------------------------------------
(* Claim C36: the chunk list tiles the address space *)

NoEmptyChunk(c) == \A i \in 1..Len(c) : c[i].size # 0

TilesAddressSpace(c) ==
    /\ Len(c) > 0
    /\ c[1].ptr = addressSpace.ptr
    /\ \A i \in 1..(Len(c) - 1) : ChunkEnd(c[i]) = c[i + 1].ptr
    /\ ChunkEnd(c[Len(c)]) = addressSpace.ptr + addressSpace.size

\* C36: after InitializeVmm and any sequence of InsertChunk calls, each with
\* a chunk of non-zero size inside the address space, the chunk list holds no
\* chunk of size zero, its first chunk starts where the address space starts,
\* each chunk ends where the next one starts and the last one ends where the
\* address space ends.
\* Violated: a chunk that starts where an incompatible chunk of the list
\* starts and ends past its end leaves that chunk in the list with size zero.
C36_ChunksTile ==
    (call.op \in {"none", "InsertChunk"} /\ call.status \in {"init", "ok"}) =>
        /\ NoEmptyChunk(chunks)
        /\ TilesAddressSpace(chunks)

\* The gaps and overlaps alone: each returned insert leaves the list without
\* holes between, before or after its chunks
C36_NoHoles ==
    (call.op \in {"none", "InsertChunk"} /\ call.status \in {"init", "ok"}) =>
        TilesAddressSpace(chunks)

----------------------------------------------------------------------------
(* Claim C37: where Allocate places its ranges *)

\* Allocate(size) finds a start and its MapLocked call returns: the call
\* returns allocStart
AllocateReturns(b, cursor, size) ==
    LET s == Search(b, cursor, size)
    IN /\ s.status = "found"
       /\ MapLocked(b, s.allocStart, AllocPa, size, FALSE).status = "ok"

\* C37: every address a successful Allocate(size) returns lies in
\* [vaStart, vaLimit - size], and is not UnmappedVa, the value of the empty
\* result.
\* Violated: on a Block sequence that an AllocateFixed with a wrapping end
\* left out of order (C38), the skip loop of the linear path takes the start of
\* a Block above vaLimit, and MapLocked accepts it because its end wraps too.
C37_AllocateInRange ==
    Live =>
        \A size \in VaType \ {0} :
            AllocateReturns(blocks, currentLinearAllocEnd, size) =>
                LET allocStart == Search(blocks, currentLinearAllocEnd, size).allocStart
                IN /\ vaStart <= allocStart
                   /\ allocStart + size <= vaLimit
                   /\ allocStart # UnmappedVa

\* The same on well-formed sequences with the cursor in [vaStart, vaLimit]
C37_WellFormedInRange ==
    (WellFormed(blocks) /\ CursorInRange) => C37_AllocateInRange

\* What the search hands to MapLocked: on well-formed sequences the gap search
\* starts at the first Block of the vector, whose start is 0, whatever vaStart
\* is
C37_SearchInRange ==
    (Live /\ WellFormed(blocks) /\ CursorInRange) =>
        \A size \in VaType \ {0} :
            LET s == Search(blocks, currentLinearAllocEnd, size)
            IN s.status = "found" => (vaStart <= s.allocStart /\ s.allocStart # UnmappedVa)

----------------------------------------------------------------------------
(* Claim C38: ranges whose end wraps around VaType *)

\* virt + size does not fit in VaType: VaType virtEnd{virt + size} wraps
Wraps(virt, size) == virt + size > VaTypeMax

\* Map and Unmap of [virt, virt + size) raise the bounds error
Rejected(virt, size) ==
    /\ UnmapLocked(blocks, virt, size).status = "bounds"
    /\ \A in \in MapInputs : MapLocked(blocks, virt, in[1], size, in[2]).status = "bounds"

\* C38: Map and Unmap reject with the bounds error every range whose true end
\* virt + size exceeds vaLimit, the ranges included for which virt + size
\* wraps around the width of VaType and the wrapped value is at most vaLimit.
\* Violated: both calls compute VaType virtEnd{virt + size} and compare the
\* wrapped value with vaLimit; nothing tests virtEnd >= virt as Allocate does
\* for its linear attempt.
C38_WrapRejected ==
    Live =>
        \A virt \in VaType, size \in VaType :
            virt + size > vaLimit => Rejected(virt, size)

\* The ranges whose end does not wrap: every one that ends after vaLimit is
\* rejected
C38_PlainRejected ==
    Live =>
        \A virt \in VaType, size \in VaType :
            (virt + size > vaLimit /\ ~Wraps(virt, size)) => Rejected(virt, size)

\* The linear attempt of Allocate does test for the wrap: it never takes a
\* start whose end wraps
C38_AllocateGuarded ==
    Live =>
        \A size \in VaType :
            Wraps(currentLinearAllocEnd, size) =>
                LinearAlloc(blocks, currentLinearAllocEnd, size) =
                    [status |-> "ok", allocStart |-> UnmappedVa]

----------------------------------------------------------------------------
(* Claim C39: the unmap callback of Map and Unmap *)

\* The outcome r of a call on [virt, virt + size): a normal return has invoked
\* the callback once, with (virt, size); an exception has not invoked it
CallbackOnce(r, virt, size) ==
    /\ r.status = "ok" => r.cb = << <<virt, size>> >>
    /\ r.status \in {"bounds", "consistency"} => r.cb = <<>>

----------------------------------------------------------------------------
(* Claim C40: what an accessor has transferred when it faults *)

\* The range starts in a backed Block and reaches an unbacked one further on
ReachesUnbacked(b, virt, size) ==
    /\ TouchesUnbacked(b, virt, size)
    /\ Resolve(b, virt)[1] # UnmappedPa

\* Both ranges of a Copy lie in the address space and start in backed Blocks,
\* and one of them reaches an unbacked Block
CopyReachesUnbacked(b, dst, src, size) ==
    /\ dst + size <= vaLimit
    /\ src + size <= vaLimit
    /\ Resolve(b, dst)[1] # UnmappedPa
    /\ Resolve(b, src)[1] # UnmappedPa
    /\ (TouchesUnbacked(b, dst, size) \/ TouchesUnbacked(b, src, size))

\* The number of bytes of the range in front of its first unbacked address;
\* size when the range has none
BackedPrefix(b, virt, size) ==
    Cardinality({n \in 1..size : \A a \in Range(virt, n) : Resolve(b, a)[1] # UnmappedPa})

\* What a Read stores for the byte at address a
ByteAt(b, a) == IF Resolve(b, a)[2] THEN ZeroByte ELSE Resolve(b, a)[1]

\* The bytes of the source that a Write stores, of its first n: those whose
\* address lies in a Block that is not sparse
StoredOf(b, virt, n) == {i \in 1..n : ~Resolve(b, virt + i - 1)[2]}

\* r is the outcome of a Read of [virt, virt + size) that has faulted with
\* the bytes in front of the first unbacked Block in the destination
ReadFaulted(b, r, virt, size) ==
    LET n == BackedPrefix(b, virt, size)
    IN /\ r.status = "fault"
       /\ r.dest = [i \in 1..n |-> ByteAt(b, virt + i - 1)]

\* The same for a Write: the bytes in front of the first unbacked Block are
\* stored, in order, and no other
WriteFaulted(b, r, virt, size) ==
    LET n == BackedPrefix(b, virt, size)
    IN /\ r.status = "fault"
       /\ Len(r.written) = Cardinality(StoredOf(b, virt, n))
       /\ \A j \in 1..Len(r.written) :
              /\ r.written[j][2] \in StoredOf(b, virt, n)
              /\ r.written[j][1] = Resolve(b, virt + r.written[j][2] - 1)[1]
              /\ \A k \in 1..(j - 1) : r.written[k][2] < r.written[j][2]

\* The same for a Copy: the bytes in front of the first unbacked Block of
\* either range are copied, in order, and no other
CopyFaulted(b, r, dst, src, size) ==
    LET n == Min(BackedPrefix(b, dst, size), BackedPrefix(b, src, size))
    IN /\ r.status = "fault"
       /\ Len(r.written) = n
       /\ \A i \in 1..n :
              r.written[i] = <<Resolve(b, dst + i - 1)[1], ByteAt(b, src + i - 1)>>

\* C40: a Read, Write or Copy whose range starts in backed Blocks and later
\* reaches an unbacked Block raises the page fault after it has transferred
\* the bytes of every sub-range in front of the first unbacked Block, and has
\* transferred no byte at or after that Block.
\* Violated: when the unbacked Block is the last one of the sequence, the
\* accessor moves on to it with 'predecessor = successor++' and reads
\* successor->virt at blocks.end() before it tests the Block's backing (C35).
C40_PartialTransfer ==
    /\ (call.status = "accessed" /\ call.op = "Read"
            /\ ReachesUnbacked(blocks, call.virt, call.size)) =>
           ReadFaulted(blocks, call.result, call.virt, call.size)
    /\ (call.status = "accessed" /\ call.op = "Write"
            /\ ReachesUnbacked(blocks, call.virt, call.size)) =>
           WriteFaulted(blocks, call.result, call.virt, call.size)
    /\ (call.status = "accessed" /\ call.op = "Copy"
            /\ CopyReachesUnbacked(blocks, call.virt[1], call.virt[2], call.size)) =>
           CopyFaulted(blocks, call.result, call.virt[1], call.virt[2], call.size)

\* The outcome apart from the read at blocks.end(): whatever the accessor
\* has transferred when it stops is what lies in front of the first unbacked
\* Block
C40_TransferredPrefix ==
    /\ (call.status = "accessed" /\ call.op = "Read"
            /\ ReachesUnbacked(blocks, call.virt, call.size)) =>
           ReadFaulted(blocks, [call.result EXCEPT !.status = "fault"],
                       call.virt, call.size)
    /\ (call.status = "accessed" /\ call.op = "Write"
            /\ ReachesUnbacked(blocks, call.virt, call.size)) =>
           WriteFaulted(blocks, [call.result EXCEPT !.status = "fault"],
                        call.virt, call.size)
    /\ (call.status = "accessed" /\ call.op = "Copy"
            /\ CopyReachesUnbacked(blocks, call.virt[1], call.virt[2], call.size)) =>
           CopyFaulted(blocks, [call.result EXCEPT !.status = "fault"],
                       call.virt[1], call.virt[2], call.size)

\* The faults that are raised: an accessor that reports the page fault has
\* transferred what lies in front of the first unbacked Block
C40_FaultAfterPrefix ==
    (call.status = "accessed" /\ call.op \in {"Read", "Write", "Copy"}
        /\ call.result.status = "fault") =>
        C40_TransferredPrefix

====
